---- MODULE Spec2Model ----
(***************************************************************************)
(* A model of the LST/NDVI dashboard's data pipeline:                      *)
(*   - utils/earth_engine.py   collection selector, layer derivation,      *)
(*                             district table                              *)
(*   - utils/data_processing.py  placeholder handling, region reducer,     *)
(*                             temporal table, trend fitter                *)
(*   - utils/data_loader.py    the local cache loaders and the upload      *)
(*                             writer                                      *)
(*                                                                         *)
(* Numbers.  TLC has integers only, so every real is a scaled integer:     *)
(*   temperatures, NDVI values, Kelvin offsets : hundredths   (25.0 = 2500)*)
(*   longitudes / latitudes                    : tenths       (76.0 = 760) *)
(*   the regression results                    : exact fractions [n, d]    *)
(* Floating-point rounding is not modelled; a division by zero is, with    *)
(* the result numpy gives it (nan or inf) and the warning it raises.       *)
(*                                                                         *)
(* Earth Engine objects are server-side handles.  The model keeps the      *)
(* expression a handle stands for, and what the server answers when the    *)
(* handle is evaluated with getInfo().                                     *)
(***************************************************************************)
EXTENDS Integers, Sequences, FiniteSets, TLC

VARIABLES
    data_dir,  \* whether the directory 'data' exists
    files,     \* the files of the data directory: file name -> content
    call,      \* the call at hand, with its inputs
    last       \* what the most recent call did: messages, files read, result

vars == <<data_dir, files, call, last>>

NoResult == [op |-> "none"]

\* Python's None, and a value that is not None.
None == [none |-> TRUE]
Some(v) == [none |-> FALSE, value |-> v]

(***************************************************************************)
(* Bounds of the model.                                                    *)
(***************************************************************************)
MaxImages == 1       \* images in the remote archive of one run
YearLo == 2011       \* the years a request ranges over: YearLo .. YearHi
YearHi == 2023
MaxPeriods == 2      \* (collection, year, month) entries of a temporal run

Years == YearLo .. YearHi
Months == {1, 4, 12}
TimesOfDay == {"Daytime", "Nighttime"}
VariableTypes == {"LST", "NDVI"}

(***************************************************************************)
(* utils/earth_engine.py                                                   *)
(***************************************************************************)

\* ee.Date.fromYMD
FromYMD(y, m, d) == [y |-> y, m |-> m, d |-> d]

\* ee.Date.advance(1, 'month')
AdvanceMonth(date) ==
    IF date.m = 12 THEN [y |-> date.y + 1, m |-> 1, d |-> date.d]
    ELSE [y |-> date.y, m |-> date.m + 1, d |-> date.d]

DateLeq(a, b) ==
    \/ a.y < b.y
    \/ a.y = b.y /\ a.m < b.m
    \/ a.y = b.y /\ a.m = b.m /\ a.d <= b.d

\* The mutant of DateLt: the end of the range included.
DateLtInclusive(a, b) == DateLeq(a, b)

DateLt(a, b) == DateLeq(a, b) /\ a # b

Landsat7 == "LANDSAT/LE07/C02/T1_L2"
Landsat8 == "LANDSAT/LC08/C02/T1_L2"
Landsat9 == "LANDSAT/LC09/C02/T1_L2"
Sources == {Landsat7, Landsat8, Landsat9}

\* The bands of the images of each source: surface reflectance plus the
\* thermal band of the sensor.
BandsOf(source) ==
    IF source = Landsat7 THEN {"SR_B3", "SR_B4", "SR_B5", "ST_B6"}
    ELSE {"SR_B4", "SR_B5", "ST_B10"}

\* The remote archive: every image has a source, an acquisition date and
\* the two properties the selector filters on.
ImageUniverse ==
    { i \in { [source |-> s, date |-> FromYMD(ymd[1], ymd[2], ymd[3]),
               CLOUD_COVER |-> c, SUN_ELEVATION |-> e, bands |-> BandsOf(s)] :
                 s \in Sources,
                 ymd \in {<<2021, 12, 15>>, <<2022, 1, 1>>},
                 c \in {10, 20}, e \in {30, 40, 50} } :
        ~(i.CLOUD_COVER = 20 /\ i.SUN_ELEVATION = 40) }

\* The subsets of S with at most n elements.
RECURSIVE SubsetsUpTo(_, _)
SubsetsUpTo(S, n) ==
    IF n = 0 THEN {{}}
    ELSE LET smaller == SubsetsUpTo(S, n - 1)
         IN  smaller \cup { s \cup {x} : s \in smaller, x \in S }

Archives == SubsetsUpTo(ImageUniverse, MaxImages)

\* The mutant of SourceFor: the Landsat-8 threshold off by one.
SourceForOffByOne(year) ==
    IF year >= 2022 THEN Landsat9
    ELSE IF year > 2013 THEN Landsat8
    ELSE Landsat7

\* get_landsat_collection, the choice of the source id.
SourceFor(year) ==
    IF year >= 2022 THEN Landsat9
    ELSE IF year >= 2013 THEN Landsat8
    ELSE Landsat7

\* get_landsat_collection.  The collection is a handle: the source id and
\* the filters put on it.  `archive` is what the server holds; `images` is
\* what the server finds when the handle is evaluated.
get_landsat_collection(year, month, time_of_day, archive) ==
    LET start_date == FromYMD(year, month, 1)
        end_date == AdvanceMonth(start_date)
        id == SourceFor(year)
        sun == IF time_of_day = "Daytime" THEN "gt" ELSE "lt"
    IN  [id |-> id, start |-> start_date, end |-> end_date,
         cloud_lt |-> 20, sun_op |-> sun, sun_thr |-> 40,
         images |-> { i \in archive :
                        /\ i.source = id
                        /\ DateLeq(start_date, i.date) /\ DateLt(i.date, end_date)
                        /\ i.CLOUD_COVER < 20
                        /\ IF sun = "gt" THEN i.SUN_ELEVATION > 40
                           ELSE i.SUN_ELEVATION < 40 }]

\* ee.ImageCollection.median(): one image with the bands of the collection's
\* images; the median of an empty collection is an image without bands.
Median(collection) ==
    [bands |-> UNION { i.bands : i \in collection.images },
     of |-> Cardinality(collection.images)]

\* ee.List.contains(name) is computed on the server: the client gets a
\* handle (ee.ComputedObject), not a Python bool.  `value` is what the
\* server would answer if the handle were evaluated.
Contains(band_names, name) == [handle |-> "List.contains", value |-> name \in band_names]

\* Python's truth test of an object used as an `if` condition.  A handle
\* defines neither __bool__ nor __len__, so it is true whatever it stands
\* for; get_lst_layer never calls getInfo() on it.
PyTruth(obj) == IF "handle" \in DOMAIN obj THEN TRUE ELSE obj.value

\* image.select([band]).multiply(0.00341802).add(149.0): the scale is kept
\* in units of 1e-8, the offset in hundredths of a Kelvin.
Scaled(image, band) ==
    [kind |-> "band", band |-> band, mul_e8 |-> 341802, add |-> 14900,
     needs |-> {band}, has |-> image.bands]

\* get_lst_layer: the thermal band is probed by name, then Kelvin -> Celsius.
get_lst_layer(image) ==
    LET band_names == image.bands
        thermal ==
            IF PyTruth(Contains(band_names, "ST_B10")) THEN Scaled(image, "ST_B10")
            ELSE IF PyTruth(Contains(band_names, "ST_B6")) THEN Scaled(image, "ST_B6")
            ELSE IF PyTruth(Contains(band_names, "B10")) THEN Scaled(image, "B10")
            ELSE IF PyTruth(Contains(band_names, "B6")) THEN Scaled(image, "B6")
            ELSE [kind |-> "constant", value |-> 29800, needs |-> {}, has |-> image.bands]
    IN  [expr |-> thermal, subtract |-> 27315, name |-> "LST",
         vis |-> [min |-> 2000, max |-> 4000], clip |-> <<>>]

\* get_ndvi_layer: the normalized difference of two fixed bands.
get_ndvi_layer(image) ==
    [expr |-> [kind |-> "normalizedDifference", needs |-> {"SR_B5", "SR_B4"},
               has |-> image.bands],
     subtract |-> 0, name |-> "NDVI",
     vis |-> [min |-> -20, max |-> 80], clip |-> <<>>]

\* The server can evaluate a layer only if every band it selects exists.
Evaluable(layer) == layer.expr.needs \subseteq layer.expr.has

\* The value of a constant layer, in hundredths.
ConstantValue(layer) == layer.expr.value - layer.subtract

DistrictNames ==
    {"Chennai", "Coimbatore", "Madurai", "Ariyalur", "Cuddalore",
     "Dharmapuri", "Dindigul", "Erode", "Tirunelveli"}

\* The mutant of get_district_boundary: a name outside the table gets the
\* state's rectangle.
get_district_boundary_state_default(district_name) ==
    CASE district_name = "Chennai" -> <<801, 129, 803, 132>>
      [] district_name = "Coimbatore" -> <<768, 109, 771, 112>>
      [] district_name = "Madurai" -> <<780, 98, 783, 100>>
      [] district_name = "Ariyalur" -> <<790, 110, 793, 113>>
      [] district_name = "Cuddalore" -> <<795, 115, 798, 118>>
      [] district_name = "Dharmapuri" -> <<780, 120, 783, 123>>
      [] district_name = "Dindigul" -> <<778, 102, 781, 105>>
      [] district_name = "Erode" -> <<774, 112, 777, 115>>
      [] district_name = "Tirunelveli" -> <<776, 86, 779, 89>>
      [] OTHER -> <<760, 80, 810, 140>>

\* The table with Chennai's corners written latitude first.
get_district_boundary_latitude_first(district_name) ==
    IF district_name = "All" THEN <<760, 80, 810, 140>>
    ELSE CASE district_name = "Chennai" -> <<129, 801, 132, 803>>
           [] district_name = "Coimbatore" -> <<768, 109, 771, 112>>
           [] district_name = "Madurai" -> <<780, 98, 783, 100>>
           [] district_name = "Ariyalur" -> <<790, 110, 793, 113>>
           [] district_name = "Cuddalore" -> <<795, 115, 798, 118>>
           [] district_name = "Dharmapuri" -> <<780, 120, 783, 123>>
           [] district_name = "Dindigul" -> <<778, 102, 781, 105>>
           [] district_name = "Erode" -> <<774, 112, 777, 115>>
           [] district_name = "Tirunelveli" -> <<776, 86, 779, 89>>
           [] OTHER -> <<780, 110, 785, 115>>

\* get_district_boundary: the fixed table, in tenths of a degree
\* <<west, south, east, north>>.
get_district_boundary(district_name) ==
    IF district_name = "All" THEN <<760, 80, 810, 140>>
    ELSE CASE district_name = "Chennai" -> <<801, 129, 803, 132>>
           [] district_name = "Coimbatore" -> <<768, 109, 771, 112>>
           [] district_name = "Madurai" -> <<780, 98, 783, 100>>
           [] district_name = "Ariyalur" -> <<790, 110, 793, 113>>
           [] district_name = "Cuddalore" -> <<795, 115, 798, 118>>
           [] district_name = "Dharmapuri" -> <<780, 120, 783, 123>>
           [] district_name = "Dindigul" -> <<778, 102, 781, 105>>
           [] district_name = "Erode" -> <<774, 112, 777, 115>>
           [] district_name = "Tirunelveli" -> <<776, 86, 779, 89>>
           [] OTHER -> <<780, 110, 785, 115>>


(***************************************************************************)
(* utils/data_processing.py                                                *)
(***************************************************************************)

\* str[i - 1 : i]
Char(str, i) == SubSeq(str, i, i)

RECURSIVE BeforeFirst(_, _)
\* str.split(c)[0]
BeforeFirst(str, c) ==
    IF Len(str) = 0 \/ Char(str, 1) = c THEN ""
    ELSE Char(str, 1) \o BeforeFirst(SubSeq(str, 2, Len(str)), c)

\* The mutant of EmptyValue: the two placeholder values exchanged.
EmptyValueSwapped(variable_type) == IF variable_type = "LST" THEN 30 ELSE 2500

\* process_landsat_data, the value of the placeholder image: 25.0 or 0.3.
EmptyValue(variable_type) == IF variable_type = "LST" THEN 2500 ELSE 30

\* process_landsat_data.  `ee_calls` lists the requests made on the
\* collection, in order; the result is the pair (data layer, region).
process_landsat_data(collection, district, variable_type, time_of_day) ==
    LET region == get_district_boundary(district)
        collection_size == Cardinality(collection.images)
    IN  IF collection_size = 0
        THEN LET empty_value == EmptyValue(variable_type)
                 placeholder == [kind |-> "constant", value |-> empty_value,
                                 needs |-> {}, has |-> {}]
                 data_layer ==
                     IF variable_type = "LST"
                     THEN [expr |-> placeholder, subtract |-> 0, name |-> "LST",
                           vis |-> [min |-> 2000, max |-> 4000], clip |-> <<>>]
                     ELSE [expr |-> placeholder, subtract |-> 0, name |-> "NDVI",
                           vis |-> [min |-> -20, max |-> 80], clip |-> <<>>]
             IN  [raised |-> "", ee_calls |-> <<"size">>,
                  layer |-> [data_layer EXCEPT !.clip = region], region |-> region]
        ELSE LET median_image == Median(collection)
                 data_layer ==
                     IF variable_type = "LST"
                     THEN [get_lst_layer(median_image) EXCEPT !.vis =
                             IF time_of_day = "Daytime"
                             THEN [min |-> 2500, max |-> 4500]
                             ELSE [min |-> 1500, max |-> 3500]]
                     ELSE get_ndvi_layer(median_image)
             IN  [raised |-> "", ee_calls |-> <<"size", "median">>,
                  layer |-> [data_layer EXCEPT !.clip = region], region |-> region]

StatNames == {"mean", "min", "max", "stdDev", "p25", "p50", "p75"}
StatValues == {1000, 2000}

\* What the region reducer can answer for a band: the seven statistics in
\* their order (min <= p25 <= p50 <= p75 <= max, mean between min and max),
\* of which the response holds any subset of keys.  A key is the text
\* {band}_{statistic}.
OrderedStats ==
    { f \in [StatNames -> StatValues \cup {0, 500}] :
        /\ f["stdDev"] \in {0, 500}
        /\ \A n \in StatNames \ {"stdDev"} : f[n] \in StatValues
        /\ f["min"] <= f["p25"] /\ f["p25"] <= f["p50"]
        /\ f["p50"] <= f["p75"] /\ f["p75"] <= f["max"]
        /\ f["min"] <= f["mean"] /\ f["mean"] <= f["max"] }

ResponseOf(band, measured) ==
    [k \in { band \o "_" \o n : n \in DOMAIN measured } |->
        measured[CHOOSE n \in DOMAIN measured : band \o "_" \o n = k]]

\* The reducer's measurements: the statistics the answer holds and the one
\* it lists first.
Replies ==
    { r \in { [measured |-> [n \in p |-> f[n]], first |-> n1] :
                f \in OrderedStats, p \in SUBSET StatNames, n1 \in StatNames } :
        r.measured = <<>> \/ r.first \in DOMAIN r.measured }

\* The mutant of Get: a missing key is reported as the key's absence (-1).
GetWithoutDefault(dict, key, default) == IF key \in DOMAIN dict THEN dict[key] ELSE -1

\* dict.get(key, default)
Get(dict, key, default) == IF key \in DOMAIN dict THEN dict[key] ELSE default

\* data_layer.reduceRegion(...).getInfo(): the server's answer.  `reply` is
\* what the reducer measured; its keys carry the
\* name of the layer's band.
ReduceRegion(data_layer, region, reply) ==
    ResponseOf(data_layer.name, reply.measured)

\* calculate_statistics.  A layer the server cannot evaluate makes getInfo()
\* raise; an answer without keys makes list(stats.keys())[0] raise.
calculate_statistics(data_layer, region, reply) ==
    IF ~Evaluable(data_layer) THEN [raised |-> "EEException"]
    ELSE LET stats == ReduceRegion(data_layer, region, reply)
         IN  IF DOMAIN stats = {} THEN [raised |-> "IndexError"]
             ELSE LET first_key == data_layer.name \o "_" \o reply.first
                      var_name == BeforeFirst(first_key, "_")
                  IN  [raised |-> "",
                       min |-> Get(stats, var_name \o "_min", 0),
                       max |-> Get(stats, var_name \o "_max", 0),
                       mean |-> Get(stats, var_name \o "_mean", 0),
                       stdDev |-> Get(stats, var_name \o "_stdDev", 0),
                       median |-> Get(stats, var_name \o "_p50", 0),
                       p25 |-> Get(stats, var_name \o "_p25", 0),
                       p75 |-> Get(stats, var_name \o "_p75", 0)]

\* The data layer analyze_temporal_changes builds for one collection and
\* region (the body of its inner loop, before the statistics).
TemporalLayer(collection, region, variable_type, time_of_day) ==
    LET median_image == Median(collection)
    IN  IF variable_type = "LST"
        THEN [get_lst_layer(median_image) EXCEPT
                !.clip = region,
                !.vis = IF time_of_day = "Daytime"
                        THEN [min |-> 2500, max |-> 4500]
                        ELSE [min |-> 1500, max |-> 3500]]
        ELSE [get_ndvi_layer(median_image) EXCEPT !.clip = region]

\* The loops of analyze_temporal_changes: pair k, counted from 1, is the
\* CollectionIndex-th collection with the RegionIndex-th region.
CollectionIndex(k, n_regions) == ((k - 1) \div n_regions) + 1

\* The mutant of RegionIndex: the regions taken last to first.
RegionIndexReversed(k, n_regions) == n_regions - ((k - 1) % n_regions)

RegionIndex(k, n_regions) == ((k - 1) % n_regions) + 1

\* analyze_temporal_changes, one (collection, region) pair after the other,
\* collection-major.  `replies[k]` is the server's answer for the k-th pair.
\* The function has no handler: the first failing pair ends the call.
RECURSIVE TemporalRows(_, _, _, _, _, _)
TemporalRows(collections, regions, variable_type, time_of_day, replies, k) ==
    IF k > Len(collections) * Len(regions)
    THEN [raised |-> "", results |-> <<>>, layers |-> <<>>]
    ELSE LET ci == CollectionIndex(k, Len(regions))
             ri == RegionIndex(k, Len(regions))
             c == collections[ci]
             r == regions[ri]
             data_layer == TemporalLayer(c.collection, r.region, variable_type, time_of_day)
             stats == calculate_statistics(data_layer, r.region, replies[k])
         IN  IF stats.raised # ""
             THEN [raised |-> stats.raised, results |-> <<>>, layers |-> <<data_layer>>]
             ELSE LET rest == TemporalRows(collections, regions, variable_type,
                                           time_of_day, replies, k + 1)
                      row == [year |-> c.year, month |-> c.month, district |-> r.district,
                              time_of_day |-> time_of_day, mean |-> stats.mean,
                              min |-> stats.min, max |-> stats.max,
                              stdDev |-> stats.stdDev]
                  IN  [raised |-> rest.raised,
                       results |-> IF rest.raised = "" THEN <<row>> \o rest.results ELSE <<>>,
                       layers |-> <<data_layer>> \o rest.layers]

analyze_temporal_changes(collections, regions, variable_type, time_of_day, replies) ==
    TemporalRows(collections, regions, variable_type, time_of_day, replies, 1)

\* generate_sample_points: ee.FeatureCollection.randomPoints(region, n), a
\* handle on n points of the region.
generate_sample_points(region, num_points) ==
    [region |-> region, num_points |-> num_points]

\* data_layer.sampleRegions(collection, properties, scale, geometries = false)
\* then getInfo().  `pixels` is what the server reads under the points, one
\* entry per point at most: a point over a masked pixel gives no feature,
\* the others a feature whose properties hold the band's value, and whose
\* geometry is kept only when `geometries` is asked for.
SampleRegions(data_layer, points, pixels, geometries) ==
    LET seen == SelectSeq(pixels, LAMBDA px : ~px.masked)
    IN  [k \in 1 .. Len(seen) |->
            [geometry |-> IF geometries THEN Some(seen[k].coordinates) ELSE None,
             properties |-> <<<<data_layer.name, seen[k].value>>>>]]

\* The body of the loop of extract_point_values for one feature:
\* feature['geometry']['coordinates'] subscripts the geometry, and the
\* value is that of the feature's first property.
PointRow(feature) ==
    IF feature.geometry = None THEN [raised |-> "TypeError"]
    ELSE IF feature.properties = <<>> THEN [raised |-> "IndexError"]
    ELSE [raised |-> "",
          longitude |-> feature.geometry.value[1],
          latitude |-> feature.geometry.value[2],
          value |-> feature.properties[1][2]]

\* extract_point_values: sampleRegions is called without `geometries`.  The
\* first feature whose row cannot be built ends the call.
extract_point_values(data_layer, points, pixels) ==
    IF ~Evaluable(data_layer) THEN [raised |-> "EEException", features |-> <<>>]
    ELSE LET features == SampleRegions(data_layer, points, pixels, FALSE)
             failing == { k \in 1 .. Len(features) : PointRow(features[k]).raised # "" }
         IN  IF failing # {}
             THEN [raised |-> PointRow(features[CHOOSE k \in failing :
                                                  \A j \in failing : k <= j]).raised,
                   features |-> features]
             ELSE [raised |-> "", features |-> features,
                   rows |-> [k \in 1 .. Len(features) |->
                               [longitude |-> PointRow(features[k]).longitude,
                                latitude |-> PointRow(features[k]).latitude,
                                value |-> PointRow(features[k]).value]]]


(***************************************************************************)
(* calculate_regression.  The arithmetic is exact: a number is a fraction  *)
(* [n, d] in lowest terms with d > 0; d = 0 is the float a division by     *)
(* zero leaves: [0, 0] is nan, [1, 0] is inf, [-1, 0] is -inf.             *)
(***************************************************************************)
MaxRows == 4         \* rows of a table handed to calculate_regression

Abs(i) == IF i < 0 THEN -i ELSE i
Sign(i) == IF i < 0 THEN -1 ELSE IF i > 0 THEN 1 ELSE 0

RECURSIVE GCD(_, _)
GCD(a, b) == IF b = 0 THEN a ELSE GCD(b, a % b)

Frac(n, d) ==
    IF d = 0 THEN [n |-> Sign(n), d |-> 0]
    ELSE LET g == GCD(Abs(n), Abs(d))
         IN  [n |-> Sign(d) * (n \div g), d |-> Abs(d) \div g]

NaN == [n |-> 0, d |-> 0]
IsFinite(q) == q.d # 0

RECURSIVE SumOver(_, _, _)
\* The sum of f[i] * g[i] over the indexes of two equally long sequences.
SumOver(f, g, i) == IF i > Len(f) THEN 0 ELSE f[i] * g[i] + SumOver(f, g, i + 1)

Ones(x) == [i \in 1 .. Len(x) |-> 1]
\* n * sum(u*v) - sum(u) * sum(v): n^2 times the covariance of u and v.
Cross(u, v) ==
    Len(u) * SumOver(u, v, 1) - SumOver(u, Ones(u), 1) * SumOver(v, Ones(v), 1)

\* The least-squares line of y over x, as numpy.polyfit(x, y, 1) computes
\* it.  When x holds a single value the system has rank 1: numpy warns and
\* returns the minimum-norm solution of the column-scaled system.
LeastSquares(x, y) ==
    LET n == Len(x)
        Sx == SumOver(x, Ones(x), 1)
        Sy == SumOver(y, Ones(y), 1)
        Sxx == Cross(x, x)
        Sxy == Cross(x, y)
    IN  IF Sxx # 0
        THEN [slope |-> Frac(Sxy, Sxx),
              intercept |-> Frac(Sy * Sxx - Sxy * Sx, n * Sxx),
              warnings |-> {}]
        ELSE [slope |-> Frac(Sy, 2 * n * x[1]),
              intercept |-> Frac(Sy, 2 * n),
              warnings |-> {"RankWarning"}]

\* The mutant of polyfit1: the two columns exchanged.
polyfit1Swapped(x, y) == LeastSquares(y, x)

\* np.polyfit(x, y, 1)
polyfit1(x, y) == LeastSquares(x, y)

\* np.corrcoef(x, y)[0, 1]: the covariance divided by both standard
\* deviations.  r is kept as its sign and its square.  A zero deviation
\* makes the division 0/0: numpy warns (invalid value) and r is nan.
corrcoef(x, y) ==
    LET Sxx == Cross(x, x)
        Syy == Cross(y, y)
        Sxy == Cross(x, y)
    IN  IF Sxx * Syy = 0
        THEN [sign |-> 0, square |-> NaN, warnings |-> {"invalid value in divide"}]
        ELSE [sign |-> Sign(Sxy), square |-> Frac(Sxy * Sxy, Sxx * Syy),
              warnings |-> {}]

\* t = r * sqrt((n - 2) / (1 - r**2)), kept as its sign and its square.
TStatistic(r, n) ==
    IF ~IsFinite(r.square) THEN [sign |-> 0, square |-> NaN, warnings |-> {}]
    ELSE IF r.square.n = r.square.d
    THEN IF n = 2
         THEN [sign |-> 0, square |-> NaN, warnings |-> {"invalid value in divide"}]
         ELSE [sign |-> r.sign * Sign(n - 2), square |-> Frac(1, 0),
               warnings |-> {"divide by zero"}]
    ELSE [sign |-> r.sign,
          square |-> Frac(r.square.n * (n - 2), r.square.d - r.square.n),
          warnings |-> {}]

\* calculate_regression.  p_value = 2 * (1 - |t|) is kept as the square of
\* t it is computed from.  An empty table makes np.polyfit raise.
calculate_regression(df) ==
    IF Len(df) = 0 THEN [raised |-> "TypeError"]
    ELSE LET x == [i \in 1 .. Len(df) |-> df[i].year]
             y == [i \in 1 .. Len(df) |-> df[i].mean]
             line == polyfit1(x, y)
             r == corrcoef(x, y)
             n == Len(x)
             t == TStatistic(r, n)
         IN  [raised |-> "",
              slope |-> line.slope, intercept |-> line.intercept,
              r_squared |-> r.square,
              p_value |-> [two_times_one_minus_sqrt_of |-> t.square],
              warnings |-> line.warnings \cup r.warnings \cup t.warnings]

(***************************************************************************)
(* utils/data_loader.py.  File names are strings, compared character by    *)
(* character as Python compares them.                                      *)
(***************************************************************************)
MaxFiles == 2        \* files in the data directory

\* The characters of the model's names, in the order of their code points.
Alphabet == " .0123456789ABCDEFGHIJKLMNOPQRSTUVWXYZ_abcdefghijklmnopqrstuvwxyz"
UpperCase == "ABCDEFGHIJKLMNOPQRSTUVWXYZ"
LowerCase == "abcdefghijklmnopqrstuvwxyz"

IndexIn(str, c) == CHOOSE i \in 1 .. Len(str) : Char(str, i) = c
HasChar(str, c) == \E i \in 1 .. Len(str) : Char(str, i) = c
Chars == { Char(Alphabet, i) : i \in 1 .. Len(Alphabet) }

\* ord(c), up to the order of the code points
Ord == [c \in Chars |-> IndexIn(Alphabet, c)]

\* c.lower()
LowerChar ==
    [c \in Chars |-> IF HasChar(UpperCase, c) THEN Char(LowerCase, IndexIn(UpperCase, c))
                     ELSE c]

RECURSIVE LowerFrom(_, _)
LowerFrom(str, i) ==
    IF i > Len(str) THEN "" ELSE LowerChar[Char(str, i)] \o LowerFrom(str, i + 1)

\* str.lower()
Lower(str) == LowerFrom(str, 1)

RECURSIVE Str(_)
\* str(n) of a natural number
Str(n) ==
    IF n < 10 THEN Char("0123456789", n + 1)
    ELSE Str(n \div 10) \o Char("0123456789", (n % 10) + 1)

\* f"{n:02d}"
Pad2(n) == IF n < 10 THEN "0" \o Str(n) ELSE Str(n)

\* str.startswith, str.endswith
StartsWith(str, p) == Len(p) <= Len(str) /\ SubSeq(str, 1, Len(p)) = p
EndsWith(str, p) ==
    Len(p) <= Len(str) /\ SubSeq(str, Len(str) - Len(p) + 1, Len(str)) = p

RECURSIVE LessFrom(_, _, _)
LessFrom(a, b, i) ==
    IF i > Len(a) THEN i <= Len(b)
    ELSE IF i > Len(b) THEN FALSE
    ELSE IF Char(a, i) = Char(b, i) THEN LessFrom(a, b, i + 1)
    ELSE Ord[Char(a, i)] < Ord[Char(b, i)]

\* a < b on Python strings
StrLess(a, b) == LessFrom(a, b, 1)

RECURSIVE AfterLast(_, _)
\* str.split(c)[-1]
AfterLast(str, c) ==
    IF Len(str) = 0 \/ Char(str, Len(str)) = c THEN ""
    ELSE AfterLast(SubSeq(str, 1, Len(str) - 1), c) \o Char(str, Len(str))

RECURSIVE InsertDesc(_, _)
InsertDesc(sorted, name) ==
    IF sorted = <<>> THEN <<name>>
    ELSE IF StrLess(name, Head(sorted)) THEN <<Head(sorted)>> \o InsertDesc(Tail(sorted), name)
    ELSE <<name>> \o sorted

RECURSIVE SortReverse(_)
\* list.sort(reverse=True)
SortReverse(names) ==
    IF names = <<>> THEN <<>> ELSE InsertDesc(SortReverse(Tail(names)), Head(names))

RECURSIVE Listings(_)
\* os.listdir: the names of a directory in any order.
Listings(names) ==
    IF names = {} THEN {<<>>}
    ELSE UNION { { <<n>> \o l : l \in Listings(names \ {n}) } : n \in names }

\* [f for f in listing if f.startswith(prefix) and f.endswith(suffix)]
Matching(listing, prefix, suffix) ==
    SelectSeq(listing, LAMBDA f : StartsWith(f, prefix) /\ EndsWith(f, suffix))

\* st.warning / st.error
Warning(text, arg) == [level |-> "warning", text |-> text, arg |-> arg]
Error(text) == [level |-> "error", text |-> text, arg |-> ""]

\* A file's content: text that does not parse, a JSON document, or a CSV
\* table (its columns, its rows, and whether the time_of_day column holds
\* text).  json.load reads JSON documents and pd.read_csv CSV tables.
ParsesAs(content, format) == content.format = format

\* The mutant of JsonFallback: the warning issued before the file is read.
JsonFallbackWarnFirst(dir, name, label) ==
    IF ParsesAs(dir[name], "json")
    THEN [msgs |-> <<Warning("Exact data not found. Using data from ", name)>>,
          opened |-> <<name>>, returned |-> Some(dir[name].data)]
    ELSE [msgs |-> <<Warning("Exact data not found. Using data from ", name),
                     Error("Error loading " \o label \o " data")>>,
          opened |-> <<name>>, returned |-> None]

\* load_lst_data / load_ndvi_data, the try block of the fallback branch.
JsonFallback(dir, name, label) ==
    IF ParsesAs(dir[name], "json")
    THEN [msgs |-> <<Warning("Exact data not found. Using data from ", name)>>,
          opened |-> <<name>>, returned |-> Some(dir[name].data)]
    ELSE [msgs |-> <<Error("Error loading " \o label \o " data")>>,
          opened |-> <<name>>, returned |-> None]

\* The mutant of LoadJson: an exact file that cannot be parsed is passed
\* over for the files of the prefix.
LoadJsonSubstituting(dir, listing, file_pattern, prefix, label) ==
    IF file_pattern \in DOMAIN dir /\ ParsesAs(dir[file_pattern], "json")
    THEN [msgs |-> <<>>, opened |-> <<file_pattern>>,
          returned |-> Some(dir[file_pattern].data)]
    ELSE LET found == Matching(listing, prefix, ".json")
         IN  IF found # <<>>
             THEN JsonFallback(dir, SortReverse(found)[1], label)
             ELSE [msgs |-> <<Warning("No " \o label \o " data files found. Please upload data files first.", "")>>,
                   opened |-> <<>>, returned |-> None]

\* The body the two JSON loaders share, after the exact name is built.
\* `dir` is the directory's content, `listing` what os.listdir returns.
LoadJson(dir, listing, file_pattern, prefix, label) ==
    IF file_pattern \in DOMAIN dir
    THEN IF ParsesAs(dir[file_pattern], "json")
         THEN [msgs |-> <<>>, opened |-> <<file_pattern>>,
               returned |-> Some(dir[file_pattern].data)]
         ELSE [msgs |-> <<Error("Error loading " \o label \o " data")>>,
               opened |-> <<file_pattern>>, returned |-> None]
    ELSE LET found == Matching(listing, prefix, ".json")
         IN  IF found # <<>>
             THEN JsonFallback(dir, SortReverse(found)[1], label)
             ELSE [msgs |-> <<Warning("No " \o label \o " data files found. Please upload data files first.", "")>>,
                   opened |-> <<>>, returned |-> None]

\* The exact names the loaders build.
LstNameWithoutTimeOfDay(year, month, district, time_of_day) ==
    "lst_" \o Str(year) \o "_" \o Pad2(month) \o "_" \o Lower(district) \o ".json"

LstName(year, month, district, time_of_day) ==
    "lst_" \o Str(year) \o "_" \o Pad2(month) \o "_" \o Lower(district) \o "_"
        \o Lower(time_of_day) \o ".json"

NdviName(year, month, district) ==
    "ndvi_" \o Str(year) \o "_" \o Pad2(month) \o "_" \o Lower(district) \o ".json"

TemporalName(variable_type, district) ==
    "temporal_" \o Lower(variable_type) \o "_" \o Lower(district) \o ".csv"

ComparisonName(variable_type, year, month) ==
    "comparison_" \o Lower(variable_type) \o "_" \o Str(year) \o "_" \o Pad2(month) \o ".csv"

load_lst_data(dir, listing, year, month, district, time_of_day) ==
    LoadJson(dir, listing, LstName(year, month, district, time_of_day), "lst_", "LST")

\* time_of_day is accepted and never read.
load_ndvi_data(dir, listing, year, month, district, time_of_day) ==
    LoadJson(dir, listing, NdviName(year, month, district), "ndvi_", "NDVI")

\* A filter that keeps every row.
FilterInKeepingAll(df, column, values) == df

\* df[df[column].isin(values)], applied when the column exists.
FilterIn(df, column, values) ==
    IF column \in df.columns
    THEN [df EXCEPT !.rows = SelectSeq(df.rows, LAMBDA r : r[column] \in values)]
    ELSE df

\* df[df['time_of_day'].str.lower() == time_of_day.lower()], applied for LST
\* when the column exists.  The .str accessor raises on a column that does
\* not hold text.
FilterTimeOfDay(df, time_of_day, variable_type) ==
    IF "time_of_day" \in df.columns /\ variable_type = "LST"
    THEN IF df.tod_is_text
         THEN [raised |-> FALSE,
               df |-> [df EXCEPT !.rows = SelectSeq(df.rows,
                          LAMBDA r : Lower(r["time_of_day"]) = Lower(time_of_day))]]
         ELSE [raised |-> TRUE, df |-> df]
    ELSE [raised |-> FALSE, df |-> df]

\* The filters of load_temporal_data.
TemporalFilters(df, years, months, time_of_day, variable_type) ==
    FilterTimeOfDay(FilterIn(FilterIn(df, "year", years), "month", months),
                    time_of_day, variable_type)

\* The filters of load_comparison_data.
ComparisonFilters(df, districts, time_of_day, variable_type) ==
    FilterTimeOfDay(FilterIn(df, "district", districts), time_of_day, variable_type)

\* pd.read_csv of a file that holds a table.
Table(content) ==
    [columns |-> content.columns, rows |-> content.rows,
     tod_is_text |-> content.tod_is_text]

\* One try block of a CSV loader: the file is read, the warning (on the
\* fallback path) is issued, the filters run and the table is returned; any
\* exception becomes an error message and None.  `out` is what the filters
\* give for the file's table.
CsvResult(parsed, name, warning, out, what) ==
    IF ~parsed
    THEN [msgs |-> <<Error("Error loading " \o what \o " data")>>,
          opened |-> <<name>>, returned |-> None]
    ELSE IF out.raised
    THEN [msgs |-> warning \o <<Error("Error loading " \o what \o " data")>>,
          opened |-> <<name>>, returned |-> None]
    ELSE [msgs |-> warning, opened |-> <<name>>, returned |-> Some(out.df)]

\* load_temporal_data, one try block for the file `name`.
TemporalRead(dir, name, warning, years, months, time_of_day, variable_type) ==
    IF ParsesAs(dir[name], "csv")
    THEN CsvResult(TRUE, name, warning,
                   TemporalFilters(Table(dir[name]), years, months, time_of_day,
                                   variable_type),
                   "temporal")
    ELSE CsvResult(FALSE, name, warning, [raised |-> TRUE], "temporal")

\* load_comparison_data, one try block for the file `name`.
ComparisonRead(dir, name, warning, districts, time_of_day, variable_type) ==
    IF ParsesAs(dir[name], "csv")
    THEN CsvResult(TRUE, name, warning,
                   ComparisonFilters(Table(dir[name]), districts, time_of_day,
                                     variable_type),
                   "comparison")
    ELSE CsvResult(FALSE, name, warning, [raised |-> TRUE], "comparison")

\* load_temporal_data, temporal_files[0]: the first file as listed.
FirstListed(found) == found[1]

load_temporal_data(dir, listing, district, years, months, time_of_day, variable_type) ==
    LET file_pattern == TemporalName(variable_type, district)
    IN  IF file_pattern \in DOMAIN dir
        THEN TemporalRead(dir, file_pattern, <<>>, years, months, time_of_day,
                          variable_type)
        ELSE LET temporal_files ==
                     Matching(listing, "temporal_" \o Lower(variable_type) \o "_", ".csv")
             IN  IF temporal_files # <<>>
                 THEN LET file_district ==
                              BeforeFirst(AfterLast(FirstListed(temporal_files), "_"), ".")
                      IN  TemporalRead(dir, FirstListed(temporal_files),
                                       <<Warning("Data for " \o district
                                                   \o " not found. Using data for ",
                                                 file_district)>>,
                                       years, months, time_of_day, variable_type)
                 ELSE [msgs |-> <<Warning("No temporal " \o variable_type \o " data found. Please authenticate with Earth Engine to access satellite data.", "")>>,
                       opened |-> <<>>, returned |-> None]

load_comparison_data(dir, listing, year, month, districts, time_of_day, variable_type) ==
    LET file_pattern == ComparisonName(variable_type, year, month)
    IN  IF file_pattern \in DOMAIN dir
        THEN ComparisonRead(dir, file_pattern, <<>>, districts, time_of_day,
                            variable_type)
        ELSE LET comparison_files ==
                     SortReverse(Matching(listing,
                                          "comparison_" \o Lower(variable_type) \o "_", ".csv"))
             IN  IF comparison_files # <<>>
                 THEN ComparisonRead(dir, comparison_files[1],
                                     <<Warning("Exact comparison data not found. Using data from ",
                                               comparison_files[1])>>,
                                     districts, time_of_day, variable_type)
                 ELSE [msgs |-> <<Warning("No " \o variable_type \o " comparison data found. Please authenticate with Earth Engine to access satellite data.", "")>>,
                       opened |-> <<>>, returned |-> None]

\* load_district_boundaries: the one file district_boundaries.json.
load_district_boundaries(dir) ==
    LET name == "district_boundaries.json"
    IN  IF name \in DOMAIN dir
        THEN IF ParsesAs(dir[name], "json")
             THEN [msgs |-> <<>>, opened |-> <<name>>, returned |-> Some(dir[name].data)]
             ELSE [msgs |-> <<Error("Error loading district boundaries")>>,
                   opened |-> <<name>>, returned |-> None]
        ELSE [msgs |-> <<Warning("District boundaries file not found. Please upload data files first.", "")>>,
              opened |-> <<>>, returned |-> None]

\* get_available_data_files: the listing sorted into the five categories
\* by the start of each name.  `exists` is os.path.exists(data_dir) after
\* ensure_data_dir.
get_available_data_files(exists, listing) ==
    IF ~exists
    THEN [lst |-> <<>>, ndvi |-> <<>>, boundaries |-> <<>>, temporal |-> <<>>,
          comparison |-> <<>>]
    ELSE [lst |-> SelectSeq(listing, LAMBDA f : StartsWith(f, "lst_")),
          ndvi |-> SelectSeq(listing, LAMBDA f : StartsWith(f, "ndvi_")),
          boundaries |-> SelectSeq(listing, LAMBDA f : StartsWith(f, "district_boundaries")),
          temporal |-> SelectSeq(listing, LAMBDA f : StartsWith(f, "temporal_")),
          comparison |-> SelectSeq(listing, LAMBDA f : StartsWith(f, "comparison_"))]

\* The name save_uploaded_file writes to: the upload's name, with the type
\* and an underscore put in front unless it starts with them.
SavedName(name, file_type) ==
    IF ~StartsWith(name, file_type \o "_") THEN file_type \o "_" \o name ELSE name

\* save_uploaded_file: the buffer is written to data/<name>; a failure to
\* open the file for writing is reported and None returned.
save_uploaded_file(dir, uploaded_file, file_type, writable) ==
    LET file_name == SavedName(uploaded_file.name, file_type)
    IN  IF ~writable
        THEN [msgs |-> <<Error("Error saving uploaded file")>>, returned |-> None,
              dir |-> dir]
        ELSE [msgs |-> <<>>, returned |-> Some(file_name),
              dir |-> [n \in DOMAIN dir \cup {file_name} |->
                         IF n = file_name THEN uploaded_file.content ELSE dir[n]]]

\* open(file_path, 'w'): the file is emptied.
OpenForWriting(dir, name) == [dir EXCEPT ![name] = [format |-> "bad"]]

\* open(file_path, 'r') and pd.read_csv(file_path): the directory after
\* the file was read.
OpenForReading(dir, name) == dir

\* The directory after a loader opened the files it did.
AfterReading(dir, opened) ==
    IF opened = <<>> THEN dir ELSE OpenForReading(dir, opened[1])

(***************************************************************************)
(* The pipeline functions as operations: a call is drawn with its inputs,  *)
(* then the function is applied to it.                                     *)
(***************************************************************************)

LandsatCalls ==
    { [op |-> "get_landsat_collection", year |-> y, month |-> m,
       time_of_day |-> t, archive |-> a] :
        y \in Years, m \in Months, t \in TimesOfDay, a \in Archives }

\* Images as get_lst_layer can be handed them: any set of band names.
LayerImages ==
    { [bands |-> b, of |-> 1] :
        b \in SUBSET {"ST_B10", "ST_B6", "B10", "B6", "SR_B4"} }

LstLayerCalls == { [op |-> "get_lst_layer", image |-> i] : i \in LayerImages }

\* The collections of the pages' requests: the server finds no image or one.
PageCollections ==
    { [collection |-> get_landsat_collection(ym[1], ym[2], t, a),
       year |-> ym[1], month |-> ym[2]] :
        ym \in {<<2021, 4>>, <<2021, 12>>, <<2022, 1>>}, t \in TimesOfDay,
        a \in SubsetsUpTo(ImageUniverse, 1) }

ProcessCalls ==
    { [op |-> "process_landsat_data", collection |-> c.collection, district |-> d,
       variable_type |-> v, time_of_day |-> t] :
        c \in PageCollections, d \in {"All", "Chennai", "Salem"},
        v \in VariableTypes, t \in TimesOfDay }

\* image.select('ST_B10').clip(region): a band under its own name.
RawBandLayer ==
    [expr |-> [kind |-> "band", band |-> "ST_B10", mul_e8 |-> 100000000, add |-> 0,
               needs |-> {"ST_B10"}, has |-> BandsOf(Landsat8)],
     subtract |-> 0, name |-> "ST_B10", vis |-> [min |-> 2000, max |-> 4000],
     clip |-> get_district_boundary("Chennai")]

\* The layers calculate_statistics is handed: those of process_landsat_data,
\* and a band that was not renamed.
StatisticsLayers ==
    { process_landsat_data(c.collection, "Chennai", v, "Daytime").layer :
        c \in PageCollections, v \in VariableTypes }
    \cup {RawBandLayer}

StatisticsCalls ==
    { [op |-> "calculate_statistics", data_layer |-> l, region |-> l.clip, reply |-> r] :
        l \in StatisticsLayers, r \in Replies }

\* What the server reads under the sample points: a pixel with a value or
\* a masked one.
Pixels ==
    { [coordinates |-> <<801, 130>>, value |-> 3010, masked |-> FALSE],
      [coordinates |-> <<802, 131>>, value |-> 2950, masked |-> FALSE],
      [coordinates |-> <<802, 129>>, value |-> 0, masked |-> TRUE] }

PointCalls ==
    { [op |-> "extract_point_values", data_layer |-> l,
       points |-> generate_sample_points(l.clip, n), pixels |-> px] :
        l \in {RawBandLayer,
               process_landsat_data([images |-> {}], "Chennai", "LST", "Daytime").layer},
        n \in {2, 3},
        px \in {<<>>} \cup [1 .. 1 -> Pixels] \cup [1 .. 2 -> Pixels] }

\* The server's answers to the pairs of a temporal run: complete answers
\* whose mean tells the pairs apart, or answers lacking the percentiles.
FullReply(k) ==
    [measured |-> [n \in StatNames |->
                     CASE n = "min" -> 1000 [] n = "max" -> 4000
                       [] n = "stdDev" -> 500 [] OTHER -> 2000 + k],
     first |-> "mean"]

PartialReply(k) ==
    [measured |-> [n \in {"mean", "min", "max"} |->
                     CASE n = "min" -> 1000 [] n = "max" -> 4000 [] OTHER -> 2000 + k],
     first |-> "min"]

ReplySeqs ==
    { [k \in 1 .. 2 * MaxPeriods |-> FullReply(k)],
      [k \in 1 .. 2 * MaxPeriods |-> PartialReply(k)] }

RegionLists ==
    { <<[district |-> "Chennai", region |-> get_district_boundary("Chennai")]>>,
      <<[district |-> "Chennai", region |-> get_district_boundary("Chennai")],
        [district |-> "Erode", region |-> get_district_boundary("Erode")]>> }

SeqsUpTo(S, n) == UNION { [1 .. k -> S] : k \in 1 .. n }

TemporalCalls ==
    { [op |-> "analyze_temporal_changes", collections |-> cs, regions |-> rs,
       variable_type |-> v, time_of_day |-> t, replies |-> rp] :
        cs \in SeqsUpTo(PageCollections, MaxPeriods), rs \in RegionLists,
        v \in VariableTypes, t \in TimesOfDay, rp \in ReplySeqs }

\* Lookups of district boundaries, one after the other: every name once,
\* and runs of three lookups in which a name can come back.
BoundaryCalls ==
    { [op |-> "get_district_boundary", names |-> <<n>>] :
        n \in DistrictNames \cup {"All", "Salem", "chennai"} }
    \cup
    { [op |-> "get_district_boundary", names |-> ns] :
        ns \in [1 .. 3 -> {"All", "Chennai", "Erode", "Salem"}] }

EECalls == LandsatCalls \cup LstLayerCalls \cup ProcessCalls \cup StatisticsCalls
           \cup TemporalCalls \cup BoundaryCalls \cup PointCalls

InitEE ==
    /\ data_dir = TRUE
    /\ files = <<>>
    /\ call \in EECalls
    /\ last = NoResult

GetLandsatCollection ==
    /\ call.op = "get_landsat_collection" /\ last = NoResult
    /\ last' = [op |-> call.op,
                result |-> get_landsat_collection(call.year, call.month,
                                                  call.time_of_day, call.archive)]
    /\ UNCHANGED <<data_dir, files, call>>

GetLstLayer ==
    /\ call.op = "get_lst_layer" /\ last = NoResult
    /\ last' = [op |-> call.op, result |-> get_lst_layer(call.image)]
    /\ UNCHANGED <<data_dir, files, call>>

ProcessLandsatData ==
    /\ call.op = "process_landsat_data" /\ last = NoResult
    /\ last' = [op |-> call.op,
                result |-> process_landsat_data(call.collection, call.district,
                                                call.variable_type, call.time_of_day)]
    /\ UNCHANGED <<data_dir, files, call>>

CalculateStatistics ==
    /\ call.op = "calculate_statistics" /\ last = NoResult
    /\ last' = [op |-> call.op,
                result |-> calculate_statistics(call.data_layer, call.region, call.reply)]
    /\ UNCHANGED <<data_dir, files, call>>

AnalyzeTemporalChanges ==
    /\ call.op = "analyze_temporal_changes" /\ last = NoResult
    /\ last' = [op |-> call.op,
                result |-> analyze_temporal_changes(call.collections, call.regions,
                                                    call.variable_type, call.time_of_day,
                                                    call.replies)]
    /\ UNCHANGED <<data_dir, files, call>>

\* The next lookup of the run.
GetDistrictBoundary ==
    /\ call.op = "get_district_boundary"
    /\ LET done == IF last = NoResult THEN <<>> ELSE last.results
       IN  /\ Len(done) < Len(call.names)
           /\ last' = [op |-> call.op,
                       results |-> Append(done,
                                          get_district_boundary(call.names[Len(done) + 1]))]
    /\ UNCHANGED <<data_dir, files, call>>

ExtractPointValues ==
    /\ call.op = "extract_point_values" /\ last = NoResult
    /\ last' = [op |-> call.op,
                result |-> extract_point_values(call.data_layer, call.points,
                                                call.pixels)]
    /\ UNCHANGED <<data_dir, files, call>>

NextEE ==
    \/ ExtractPointValues
    \/ GetDistrictBoundary
    \/ GetLandsatCollection
    \/ GetLstLayer
    \/ ProcessLandsatData
    \/ CalculateStatistics
    \/ AnalyzeTemporalChanges

SpecEE == InitEE /\ [][NextEE]_vars


(***************************************************************************)
(* Claims about the pipeline functions (SpecEE).                           *)
(***************************************************************************)

\* C1: for every year the selector picks exactly one source id: Landsat 7
\* below 2013, Landsat 8 from 2013 to 2021, Landsat 9 from 2022 on, whatever
\* the month and the time of day.
C1_SourceByYear ==
    last.op = "get_landsat_collection" =>
        /\ call.year < 2013 => last.result.id = Landsat7
        /\ (2013 <= call.year /\ call.year <= 2021) => last.result.id = Landsat8
        /\ call.year >= 2022 => last.result.id = Landsat9

C1_Witness ==
    /\ last.op = "get_landsat_collection"
    /\ call.year = 2013 /\ call.month = 12 /\ call.time_of_day = "Nighttime"
    /\ last.result.id = Landsat8

\* The statistics of a summary are in order.
StatsOrdered(s) ==
    /\ s.min <= s.p25 /\ s.p25 <= s.median
    /\ s.median <= s.p75 /\ s.p75 <= s.max
    /\ s.min <= s.mean /\ s.mean <= s.max

\* C2: every summary calculate_statistics returns has min <= p25 <= median
\* <= p75 <= max and min <= mean <= max, for every reducer answer whose
\* values are in order, whichever of the seven keys the answer holds.
C2_StatsOrdered ==
    (last.op = "calculate_statistics" /\ last.result.raised = "") =>
        StatsOrdered(last.result)

\* C8: with a collection of zero images process_landsat_data returns a
\* constant placeholder clipped to the district's region, 25.0 named LST
\* for LST and 0.3 named NDVI otherwise, without taking a median and
\* without raising.
C8_PlaceholderOnEmpty ==
    (last.op = "process_landsat_data" /\ call.collection.images = {}) =>
        /\ last.result.raised = ""
        /\ last.result.layer.expr.kind = "constant"
        /\ last.result.layer.clip = get_district_boundary(call.district)
        /\ last.result.region = get_district_boundary(call.district)
        /\ last.result.ee_calls = <<"size">>
        /\ IF call.variable_type = "LST"
           THEN /\ ConstantValue(last.result.layer) = 2500
                /\ last.result.layer.name = "LST"
           ELSE /\ ConstantValue(last.result.layer) = 30
                /\ last.result.layer.name = "NDVI"

C8_Witness ==
    /\ last.op = "process_landsat_data"
    /\ call.collection.images = {}
    /\ call.variable_type = "NDVI" /\ call.district = "Chennai"
    /\ ConstantValue(last.result.layer) = 30
    /\ last.result.layer.clip = <<801, 129, 803, 132>>

\* The pairs of a temporal run: pair k is collection (k-1) div |regions| + 1.
PairCollection(c, k) == c.collections[((k - 1) \div Len(c.regions)) + 1].collection

\* C9: in a temporal run, the statistics of every period whose collection
\* holds zero images come from the placeholder constant layer (25.0 for
\* LST, 0.3 for NDVI), not from a median of the empty collection.
C9_TemporalPlaceholder ==
    last.op = "analyze_temporal_changes" =>
        \A k \in 1 .. Len(last.result.layers) :
            PairCollection(call, k).images = {} =>
                /\ last.result.layers[k].expr.kind = "constant"
                /\ ConstantValue(last.result.layers[k]) =
                       (IF call.variable_type = "LST" THEN 2500 ELSE 30)

ThermalCandidates == {"ST_B10", "ST_B6", "B10", "B6"}

\* C10: for an image with none of the candidate thermal bands get_lst_layer
\* returns the default layer, 298 K minus 273.15, named LST, and selects no
\* band the image lacks.
C10_DefaultWithoutThermalBand ==
    (last.op = "get_lst_layer" /\ call.image.bands \cap ThermalCandidates = {}) =>
        /\ last.result.expr.kind = "constant"
        /\ ConstantValue(last.result) = 2485
        /\ last.result.name = "LST"
        /\ Evaluable(last.result)

\* The candidate names in the order they are probed.
ProbeOrder == <<"ST_B10", "ST_B6", "B10", "B6">>

\* C11: for an image with one of the candidate thermal bands get_lst_layer
\* takes the first name in the order ST_B10, ST_B6, B10, B6 that the image
\* has, and the layer is that band times 0.00341802 plus 149.0 minus 273.15;
\* an image with ST_B6 and without ST_B10 is derived from ST_B6.
C11_FirstCandidatePresent ==
    (last.op = "get_lst_layer" /\ call.image.bands \cap ThermalCandidates # {}) =>
        LET first == CHOOSE i \in 1 .. Len(ProbeOrder) :
                         /\ ProbeOrder[i] \in call.image.bands
                         /\ \A j \in 1 .. i - 1 : ProbeOrder[j] \notin call.image.bands
        IN  /\ last.result.expr.kind = "band"
            /\ last.result.expr.band = ProbeOrder[first]
            /\ last.result.expr.mul_e8 = 341802
            /\ last.result.expr.add = 14900
            /\ last.result.subtract = 27315


\* The text {band}: what precedes the first underscore of the first key of
\* the response to the call.
BandOfResponse == BeforeFirst(call.data_layer.name \o "_" \o call.reply.first, "_")

\* The response's value under {band}_{statistic}, 0 when it has no such key.
Reported(statistic) ==
    LET named == { n \in DOMAIN call.reply.measured :
                     call.data_layer.name \o "_" \o n = BandOfResponse \o "_" \o statistic }
    IN  IF named = {} THEN 0 ELSE call.reply.measured[CHOOSE n \in named : TRUE]

\* C16: for every reducer response with at least one key,
\* calculate_statistics returns exactly the seven keys min, max, mean,
\* stdDev, median, p25, p75; median is the response's {band}_p50 value, each
\* other key the response's {band}_{key} value, {band} the text before the
\* first underscore of the first key, and a missing statistic is 0.
C16_SimplifiedSchema ==
    (/\ last.op = "calculate_statistics"
     /\ Evaluable(call.data_layer)
     /\ call.reply.measured # <<>>)
    => /\ last.result.raised = ""
       /\ DOMAIN last.result \ {"raised"}
              = {"min", "max", "mean", "stdDev", "median", "p25", "p75"}
       /\ last.result.median = Reported("p50")
       /\ \A k \in {"min", "max", "mean", "stdDev", "p25", "p75"} :
              last.result[k] = Reported(k)

\* A response of the LST layer that holds a mean and no median.
C16_Witness ==
    /\ last.op = "calculate_statistics"
    /\ call.data_layer.name = "LST"
    /\ Evaluable(call.data_layer)
    /\ DOMAIN call.reply.measured = {"mean", "min"}
    /\ last.result.raised = ""
    /\ last.result.mean = call.reply.measured["mean"]
    /\ last.result.mean > 0
    /\ last.result.median = 0


\* A date as the number yyyymmdd.
DayNumber(y, m, d) == y * 10000 + m * 100 + d

\* The first day of the month after (year, month).
NextMonthStart(year, month) ==
    IF month = 12 THEN DayNumber(year + 1, 1, 1) ELSE DayNumber(year, month + 1, 1)

\* The image was acquired in the one-month window that starts at (year, month).
InWindow(i, year, month) ==
    /\ DayNumber(year, month, 1) <= DayNumber(i.date.y, i.date.m, i.date.d)
    /\ DayNumber(i.date.y, i.date.m, i.date.d) < NextMonthStart(year, month)

\* C17: an image of the selected source is in the collection that
\* get_landsat_collection(year, month, time_of_day) returns if and only if
\* its date is in the window from the first day of (year, month) up to but
\* excluding the first day of the next month, its CLOUD_COVER is below 20
\* and its SUN_ELEVATION is above 40 for Daytime, below 40 for Nighttime; an
\* image with SUN_ELEVATION exactly 40 is in neither result.
C17_CollectionMembership ==
    last.op = "get_landsat_collection" =>
        /\ last.result.images \subseteq call.archive
        /\ \A i \in call.archive :
               /\ i.SUN_ELEVATION = 40 => i \notin last.result.images
               /\ i.source = last.result.id =>
                      (i \in last.result.images <=>
                          /\ InWindow(i, call.year, call.month)
                          /\ i.CLOUD_COVER < 20
                          /\ (call.time_of_day = "Daytime" => i.SUN_ELEVATION > 40)
                          /\ (call.time_of_day = "Nighttime" => i.SUN_ELEVATION < 40))

\* A December request keeps the clear, sunlit image of mid-December.
C17_Witness ==
    /\ last.op = "get_landsat_collection"
    /\ call.year = 2021 /\ call.month = 12 /\ call.time_of_day = "Daytime"
    /\ \E i \in call.archive :
           /\ i.date = FromYMD(2021, 12, 15)
           /\ i.CLOUD_COVER = 10 /\ i.SUN_ELEVATION = 50
           /\ last.result.images = {i}


\* The value the k-th answer of the server holds for a statistic, 0 when it
\* holds none.
Answered(k, statistic) ==
    IF statistic \in DOMAIN call.replies[k].measured
    THEN call.replies[k].measured[statistic] ELSE 0

\* C18: a call of analyze_temporal_changes that returns gives exactly one
\* record per (collection, region) pair, |collections| x |regions| rows in
\* collection-major order; each record carries the year and month of its
\* collection, the district of its region and the mean, min, max and stdDev
\* of the statistics of its pair.
C18_OneRecordPerPair ==
    (last.op = "analyze_temporal_changes" /\ last.result.raised = "") =>
        LET rows == last.result.results
            nr == Len(call.regions)
        IN  /\ Len(rows) = Len(call.collections) * nr
            /\ \A ci \in 1 .. Len(call.collections) : \A ri \in 1 .. nr :
                   LET k == (ci - 1) * nr + ri
                   IN  /\ rows[k].year = call.collections[ci].year
                       /\ rows[k].month = call.collections[ci].month
                       /\ rows[k].district = call.regions[ri].district
                       /\ \A n \in {"mean", "min", "max", "stdDev"} :
                              rows[k][n] = Answered(k, n)

\* Two periods and two districts, answered in full: four rows.
C18_Witness ==
    /\ last.op = "analyze_temporal_changes"
    /\ last.result.raised = ""
    /\ Len(call.collections) = 2 /\ Len(call.regions) = 2
    /\ call.collections[1].month # call.collections[2].month
    /\ Len(last.result.results) = 4
    /\ last.result.results[2].district = "Erode"
    /\ last.result.results[3].district = "Chennai"
    /\ last.result.results[3].month = call.collections[2].month
    /\ last.result.results[3].mean = 2003


\* The table of rectangles, <<west, south, east, north>> in tenths of a
\* degree.
StateRectangle == <<760, 80, 810, 140>>
DefaultRectangle == <<780, 110, 785, 115>>
TabledRectangle ==
    [n \in DistrictNames |->
        CASE n = "Chennai" -> <<801, 129, 803, 132>>
          [] n = "Coimbatore" -> <<768, 109, 771, 112>>
          [] n = "Madurai" -> <<780, 98, 783, 100>>
          [] n = "Ariyalur" -> <<790, 110, 793, 113>>
          [] n = "Cuddalore" -> <<795, 115, 798, 118>>
          [] n = "Dharmapuri" -> <<780, 120, 783, 123>>
          [] n = "Dindigul" -> <<778, 102, 781, 105>>
          [] n = "Erode" -> <<774, 112, 777, 115>>
          [] n = "Tirunelveli" -> <<776, 86, 779, 89>>]

\* C19: get_district_boundary is a total, deterministic lookup: All yields
\* the state rectangle, each of the nine tabled names its own rectangle,
\* every other name the default rectangle, and lookups of the same name
\* yield the same rectangle whatever was looked up in between.
C19_FixedTable ==
    last.op = "get_district_boundary" =>
        /\ \A k \in 1 .. Len(last.results) :
               LET n == call.names[k]
               IN  last.results[k] =
                       (IF n = "All" THEN StateRectangle
                        ELSE IF n \in DistrictNames THEN TabledRectangle[n]
                        ELSE DefaultRectangle)
        /\ \A j, k \in 1 .. Len(last.results) :
               call.names[j] = call.names[k] => last.results[j] = last.results[k]
        /\ \A a, b \in DistrictNames : a # b => TabledRectangle[a] # TabledRectangle[b]

\* An unlisted name looked up twice with a tabled name in between.
C19_Witness ==
    /\ last.op = "get_district_boundary"
    /\ call.names = <<"Salem", "Chennai", "Salem">>
    /\ last.results = <<DefaultRectangle, TabledRectangle["Chennai"], DefaultRectangle>>

\* west < east and south < north
WellFormed(r) == r[1] < r[3] /\ r[2] < r[4]

\* The rectangle `inner` lies inside `outer`.
Inside(inner, outer) ==
    /\ outer[1] <= inner[1] /\ inner[3] <= outer[3]
    /\ outer[2] <= inner[2] /\ inner[4] <= outer[4]

\* C28: every rectangle get_district_boundary returns is well formed and
\* lies inside the state's rectangle [76.0, 8.0, 81.0, 14.0].
C28_RectanglesInsideState ==
    last.op = "get_district_boundary" =>
        \A k \in 1 .. Len(last.results) :
            /\ WellFormed(last.results[k])
            /\ Inside(last.results[k], <<760, 80, 810, 140>>)

\* The state, a tabled district and an unlisted name were looked up.
C28_Witness ==
    /\ last.op = "get_district_boundary"
    /\ call.names = <<"All", "Erode", "Salem">>
    /\ Len(last.results) = 3
    /\ last.results[2] # last.results[3]


\* C22: extract_point_values returns one row per feature the sampling
\* returns, in the same order, with longitude and latitude the feature's
\* coordinates and value its first property; the rows are never more than
\* the points drawn.
C22_OneRowPerFeature ==
    (last.op = "extract_point_values" /\ Evaluable(call.data_layer)) =>
        LET features == last.result.features
            seen == SelectSeq(call.pixels, LAMBDA px : ~px.masked)
        IN  /\ last.result.raised = ""
            /\ Len(last.result.rows) = Len(features)
            /\ Len(last.result.rows) <= call.points.num_points
            /\ \A k \in 1 .. Len(features) :
                   /\ last.result.rows[k].longitude = seen[k].coordinates[1]
                   /\ last.result.rows[k].latitude = seen[k].coordinates[2]
                   /\ last.result.rows[k].value = features[k].properties[1][2]


(***************************************************************************)
(* The trend fitter as an operation (SpecReg).                             *)
(***************************************************************************)

\* The (year, mean) records a table is made of: the line through
\* (2018, 30) and (2024, 33), and two records off it.
RegressionRows ==
    { [year |-> r[1], mean |-> r[2]] :
        r \in {<<2018, 30>>, <<2020, 31>>, <<2022, 32>>, <<2024, 33>>,
               <<2020, 30>>, <<2018, 33>>} }

RegressionCalls ==
    { [op |-> "calculate_regression", df |-> df] :
        df \in {<<>>} \cup SeqsUpTo(RegressionRows, MaxRows) }

InitReg ==
    /\ data_dir = TRUE
    /\ files = <<>>
    /\ call \in RegressionCalls
    /\ last = NoResult

CalculateRegression ==
    /\ call.op = "calculate_regression" /\ last = NoResult
    /\ last' = [op |-> call.op, result |-> calculate_regression(call.df)]
    /\ UNCHANGED <<data_dir, files, call>>

NextReg == CalculateRegression

SpecReg == InitReg /\ [][NextReg]_vars

DistinctYears(df) == { df[i].year : i \in 1 .. Len(df) }
DistinctMeans(df) == { df[i].mean : i \in 1 .. Len(df) }

\* Every record of the table lies on the line through records i and j.
OnLineThrough(df, i, j) ==
    \A k \in 1 .. Len(df) :
        (df[k].mean - df[i].mean) * (df[j].year - df[i].year)
            = (df[j].mean - df[i].mean) * (df[k].year - df[i].year)

\* C3: for a table whose records lie exactly on a line mean = a*year + b
\* with a # 0 and at least two distinct years, calculate_regression returns
\* slope a, intercept b and r_squared 1 (2018..2024 with 30..33: slope 1/2).
C3_ExactOnLinearSeries ==
    last.op = "calculate_regression" =>
        \A i, j \in 1 .. Len(call.df) :
            LET df == call.df
                dx == df[j].year - df[i].year
                dy == df[j].mean - df[i].mean
            IN  (dx # 0 /\ dy # 0 /\ OnLineThrough(df, i, j)) =>
                    /\ last.result.raised = ""
                    /\ last.result.slope = Frac(dy, dx)
                    /\ last.result.intercept = Frac(df[i].mean * dx - dy * df[i].year, dx)
                    /\ last.result.r_squared = Frac(1, 1)

C3_Witness ==
    /\ last.op = "calculate_regression"
    /\ call.df = <<[year |-> 2018, mean |-> 30], [year |-> 2020, mean |-> 31],
                   [year |-> 2022, mean |-> 32], [year |-> 2024, mean |-> 33]>>
    /\ last.result.slope = [n |-> 1, d |-> 2]
    /\ last.result.intercept = [n |-> -979, d |-> 1]
    /\ last.result.r_squared = [n |-> 1, d |-> 1]

\* C4: for a table of at least 3 records with equal means and at least two
\* distinct years, calculate_regression divides by zero nowhere, does not
\* raise, and reports slope 0 with r_squared 0 or marked undefined.
C4_ConstantSeriesGraceful ==
    (/\ last.op = "calculate_regression"
     /\ Len(call.df) >= 3
     /\ Cardinality(DistinctMeans(call.df)) = 1
     /\ Cardinality(DistinctYears(call.df)) >= 2) =>
        /\ last.result.raised = ""
        /\ last.result.warnings = {}
        /\ last.result.slope = Frac(0, 1)
        /\ last.result.r_squared \in {Frac(0, 1), NaN}


\* p = 2 * (1 - sqrt(s)) is a number of [0, 1]: s is finite and
\* 1/4 <= s <= 1.
InUnitInterval(p) ==
    LET s == p.two_times_one_minus_sqrt_of
    IN  /\ IsFinite(s)
        /\ s.d <= 4 * s.n
        /\ s.n <= s.d

\* C21: for every table of at least 3 records with at least two distinct
\* years, the p_value calculate_regression returns is a defined number of
\* the interval [0, 1], tables of correlation exactly 1 or -1 included.
C21_PValueInUnitInterval ==
    (/\ last.op = "calculate_regression"
     /\ Len(call.df) >= 3
     /\ Cardinality(DistinctYears(call.df)) >= 2) =>
        /\ last.result.raised = ""
        /\ InUnitInterval(last.result.p_value)


(***************************************************************************)
(* The cache loaders as operations (SpecLoader): the data directory holds  *)
(* any files, a request is drawn, and the loader serves it, as often as    *)
(* the page is rerun.                                                      *)
(***************************************************************************)

Bad == [format |-> "bad"]
JsonContents == {Bad, [format |-> "json", data |-> "A"], [format |-> "json", data |-> "B"]}

\* A table with every column the loaders filter on.
FullTable ==
    [format |-> "csv",
     columns |-> {"year", "month", "time_of_day", "district", "mean"},
     tod_is_text |-> TRUE,
     rows |-> <<[year |-> 2023, month |-> 4, time_of_day |-> "Daytime",
                 district |-> "Erode", mean |-> 30],
                [year |-> 2024, month |-> 4, time_of_day |-> "nighttime",
                 district |-> "Erode", mean |-> 31],
                [year |-> 2024, month |-> 10, time_of_day |-> "Daytime",
                 district |-> "Salem", mean |-> 32]>>]

\* A table whose time_of_day column holds numbers.
CodedTable ==
    [format |-> "csv", columns |-> {"year", "time_of_day", "mean"},
     tod_is_text |-> FALSE,
     rows |-> <<[year |-> 2023, time_of_day |-> 1, mean |-> 30]>>]

\* A table without a month and a district column.
PartialTable ==
    [format |-> "csv", columns |-> {"year", "time_of_day", "mean"},
     tod_is_text |-> TRUE,
     rows |-> <<[year |-> 2023, time_of_day |-> "Daytime", mean |-> 30],
                [year |-> 2024, time_of_day |-> "Nighttime", mean |-> 31],
                [year |-> 2023, time_of_day |-> "nighttime", mean |-> 32]>>]

CsvContents == {Bad, FullTable, CodedTable}

JsonNames ==
    {"lst_2023_10_erode_daytime.json", "lst_2024_04_erode_daytime.json",
     "lst_sample.json", "ndvi_2024_04_erode.json"}

CsvNames ==
    {"temporal_lst_salem.csv", "temporal_lst_madurai.csv",
     "comparison_lst_2024_04.csv", "comparison_lst_sample.csv"}

DirEntries ==
    (JsonNames \X JsonContents) \cup (CsvNames \X CsvContents)
        \cup {<<"temporal_ndvi_salem.csv", PartialTable>>}

\* The directories of at most MaxFiles files.
Directories ==
    { [n \in { e[1] : e \in d } |-> (CHOOSE e \in d : e[1] = n)[2]] :
        d \in { d \in SubsetsUpTo(DirEntries, MaxFiles) :
                  \A e1, e2 \in d : e1[1] = e2[1] => e1 = e2 } }

\* The requests: (year, month) pairs with and without a file of their own,
\* and the time of day / variable combinations the sidebar allows.
RequestMonths == {<<2023, 10>>, <<2024, 4>>, <<2024, 10>>}
RequestKinds == {<<"LST", "Daytime">>, <<"LST", "Nighttime">>, <<"NDVI", "Daytime">>}

LoaderCalls ==
    { [op |-> "load_lst_data", year |-> ym[1], month |-> ym[2], district |-> "Erode",
       time_of_day |-> t] : ym \in RequestMonths, t \in TimesOfDay }
    \cup
    { [op |-> "load_ndvi_data", year |-> ym[1], month |-> ym[2], district |-> "Erode",
       time_of_day |-> t] : ym \in RequestMonths, t \in TimesOfDay }
    \cup
    { [op |-> "load_temporal_data", district |-> d, years |-> ys, months |-> {4},
       time_of_day |-> k[2], variable_type |-> k[1]] :
        d \in {"Salem", "Erode"}, ys \in {{2023}, {2023, 2024}}, k \in RequestKinds }
    \cup
    { [op |-> "load_comparison_data", year |-> ym[1], month |-> ym[2],
       districts |-> {"Erode"}, time_of_day |-> k[2], variable_type |-> k[1]] :
        ym \in RequestMonths, k \in RequestKinds }

InitLoader ==
    /\ data_dir \in BOOLEAN
    /\ files \in (IF data_dir THEN Directories ELSE {<<>>})
    /\ call \in LoaderCalls
    /\ last = NoResult

\* ensure_data_dir: os.makedirs('data', exist_ok=True)
ensure_data_dir(exists) == TRUE

Done(op, r) == [op |-> op, msgs |-> r.msgs, opened |-> r.opened, returned |-> r.returned]

LoadLstData ==
    /\ call.op = "load_lst_data"
    /\ data_dir' = ensure_data_dir(data_dir)
    /\ \E listing \in Listings(DOMAIN files) :
         last' = Done(call.op, load_lst_data(files, listing, call.year, call.month,
                                             call.district, call.time_of_day))
    /\ files' = AfterReading(files, last'.opened)
    /\ UNCHANGED call

LoadNdviData ==
    /\ call.op = "load_ndvi_data"
    /\ data_dir' = ensure_data_dir(data_dir)
    /\ \E listing \in Listings(DOMAIN files) :
         last' = Done(call.op, load_ndvi_data(files, listing, call.year, call.month,
                                              call.district, call.time_of_day))
    /\ files' = AfterReading(files, last'.opened)
    /\ UNCHANGED call

LoadTemporalData ==
    /\ call.op = "load_temporal_data"
    /\ data_dir' = ensure_data_dir(data_dir)
    /\ \E listing \in Listings(DOMAIN files) :
         last' = Done(call.op, load_temporal_data(files, listing, call.district,
                                                  call.years, call.months,
                                                  call.time_of_day, call.variable_type))
    /\ files' = AfterReading(files, last'.opened)
    /\ UNCHANGED call

LoadComparisonData ==
    /\ call.op = "load_comparison_data"
    /\ data_dir' = ensure_data_dir(data_dir)
    /\ \E listing \in Listings(DOMAIN files) :
         last' = Done(call.op, load_comparison_data(files, listing, call.year, call.month,
                                                    call.districts, call.time_of_day,
                                                    call.variable_type))
    /\ files' = AfterReading(files, last'.opened)
    /\ UNCHANGED call

NextLoader ==
    \/ LoadLstData
    \/ LoadNdviData
    \/ LoadTemporalData
    \/ LoadComparisonData

SpecLoader == InitLoader /\ [][NextLoader]_vars


(***************************************************************************)
(* The data directory under all the operations of data_loader.py           *)
(* (SpecStore): the loaders, the listing and the upload.                   *)
(***************************************************************************)

StoreEntries ==
    { <<"lst_2024_04_erode_daytime.json", [format |-> "json", data |-> "A"]>>,
      <<"lst_sample.json", Bad>>,
      <<"ndvi_2024_04_erode.json", [format |-> "json", data |-> "B"]>>,
      <<"temporal_lst_salem.csv", FullTable>>,
      <<"comparison_lst_2024_04.csv", FullTable>>,
      <<"district_boundaries.json", [format |-> "json", data |-> "A"]>>,
      <<"district_boundaries.json", Bad>> }

StoreDirectories ==
    { [n \in { e[1] : e \in d } |-> (CHOOSE e \in d : e[1] = n)[2]] :
        d \in { d \in SubsetsUpTo(StoreEntries, MaxFiles) :
                  \A e1, e2 \in d : e1[1] = e2[1] => e1 = e2 } }

FileTypes == {"lst", "ndvi", "boundaries", "temporal", "comparison"}

\* The uploads: names with and without the prefix of a type, and a disk
\* that takes the file or not.
UploadCalls ==
    { [op |-> "save_uploaded_file",
       uploaded_file |-> [name |-> n, content |-> [format |-> "json", data |-> "B"]],
       file_type |-> t, writable |-> w] :
        n \in {"district_boundaries.json", "lst_2024_04_erode_daytime.json",
               "readings.csv", "boundaries_tn.json"},
        t \in FileTypes, w \in BOOLEAN }

StoreCalls ==
    LoaderCalls \cup UploadCalls
        \cup {[op |-> "load_district_boundaries"], [op |-> "get_available_data_files"]}

InitStore ==
    /\ data_dir \in BOOLEAN
    /\ files \in (IF data_dir THEN StoreDirectories ELSE {<<>>})
    /\ call \in StoreCalls
    /\ last = NoResult

LoadDistrictBoundaries ==
    /\ call.op = "load_district_boundaries"
    /\ data_dir' = ensure_data_dir(data_dir)
    /\ last' = Done(call.op, load_district_boundaries(files))
    /\ files' = AfterReading(files, last'.opened)
    /\ UNCHANGED call

\* The listing, asked for on its own or after an upload.
GetAvailableDataFiles ==
    /\ call.op = "get_available_data_files" \/ last.op = "save_uploaded_file"
    /\ data_dir' = ensure_data_dir(data_dir)
    /\ \E listing \in Listings(DOMAIN files) :
         last' = [op |-> "get_available_data_files",
                  returned |-> get_available_data_files(data_dir', listing),
                  previous |-> IF last.op = "save_uploaded_file" THEN last
                               ELSE NoResult]
    /\ UNCHANGED <<files, call>>

SaveUploadedFile ==
    /\ call.op = "save_uploaded_file" /\ last = NoResult
    /\ data_dir' = ensure_data_dir(data_dir)
    /\ LET saved == save_uploaded_file(files, call.uploaded_file, call.file_type,
                                       call.writable)
       IN  /\ last' = [op |-> call.op, msgs |-> saved.msgs, returned |-> saved.returned]
           /\ files' = saved.dir
    /\ UNCHANGED call

NextStore ==
    \/ LoadLstData
    \/ LoadNdviData
    \/ LoadTemporalData
    \/ LoadComparisonData
    \/ LoadDistrictBoundaries
    \/ GetAvailableDataFiles
    \/ SaveUploadedFile

SpecStore == InitStore /\ [][NextStore]_vars


(***************************************************************************)
(* Claims about the cache loaders (SpecLoader).                            *)
(***************************************************************************)

LoaderOps ==
    {"load_lst_data", "load_ndvi_data", "load_temporal_data", "load_comparison_data"}

\* The exact file name of a request.
ExactName(c) ==
    CASE c.op = "load_lst_data" -> LstName(c.year, c.month, c.district, c.time_of_day)
      [] c.op = "load_ndvi_data" -> NdviName(c.year, c.month, c.district)
      [] c.op = "load_temporal_data" -> TemporalName(c.variable_type, c.district)
      [] c.op = "load_comparison_data" -> ComparisonName(c.variable_type, c.year, c.month)

\* The prefix, the extension and the format of the files of a request.
PrefixOf(c) ==
    CASE c.op = "load_lst_data" -> "lst_"
      [] c.op = "load_ndvi_data" -> "ndvi_"
      [] c.op = "load_temporal_data" -> "temporal_" \o Lower(c.variable_type) \o "_"
      [] c.op = "load_comparison_data" -> "comparison_" \o Lower(c.variable_type) \o "_"

SuffixOf(c) == IF c.op \in {"load_lst_data", "load_ndvi_data"} THEN ".json" ELSE ".csv"
FormatOf(c) == IF c.op \in {"load_lst_data", "load_ndvi_data"} THEN "json" ELSE "csv"

\* The files of the directory a request can fall back to.
PrefixFiles(c, dir) ==
    { f \in DOMAIN dir : StartsWith(f, PrefixOf(c)) /\ EndsWith(f, SuffixOf(c)) }

IsDigit(c) == HasChar("0123456789", c)
DigitValue(c) == IndexIn("0123456789", c) - 1

\* A name follows the convention when its prefix is followed by a four-digit
\* year, an underscore and a two-digit month.
FollowsConvention(name, prefix) ==
    LET k == Len(prefix)
    IN  /\ Len(name) >= k + 7
        /\ \A i \in {1, 2, 3, 4, 6, 7} : IsDigit(Char(name, k + i))
        /\ Char(name, k + 5) = "_"

\* The (year, month) of a name that follows the convention, as months.
Stamp(name, prefix) ==
    LET k == Len(prefix)
        d(i) == DigitValue(Char(name, k + i))
    IN  12 * (1000 * d(1) + 100 * d(2) + 10 * d(3) + d(4)) + 10 * d(6) + d(7)

HasLevel(msgs, level) == \E i \in 1 .. Len(msgs) : msgs[i].level = level

\* C5: when the exact file is absent, files of the prefix exist and no read
\* fails, load_lst_data, load_ndvi_data and load_comparison_data return data,
\* and when some of the files follow the naming convention the file loaded
\* is one of them, with the latest (year, month) among them.
C5_FallbackLoadsLatest ==
    (/\ last.op \in {"load_lst_data", "load_ndvi_data", "load_comparison_data"}
     /\ ExactName(call) \notin DOMAIN files
     /\ PrefixFiles(call, files) # {}
     /\ ~HasLevel(last.msgs, "error"))
    => LET dated == { f \in PrefixFiles(call, files) :
                        FollowsConvention(f, PrefixOf(call)) }
       IN  /\ last.returned # None
           /\ dated # {} =>
                /\ last.opened[1] \in dated
                /\ \A f \in dated :
                     Stamp(f, PrefixOf(call)) <= Stamp(last.opened[1], PrefixOf(call))

\* C6: when the exact temporal file is absent, the file load_temporal_data
\* falls back to depends on the set of files alone: two runs on the same
\* request over the same directory open the same file, whatever the order
\* in which the directory is listed.
C6_TemporalPickIndependentOfListing ==
    [][(/\ call.op = "load_temporal_data"
        /\ last.op = "load_temporal_data" /\ last'.op = "load_temporal_data"
        /\ files' = files /\ call' = call
        /\ ExactName(call) \notin DOMAIN files)
       => last'.opened = last.opened]_vars

\* The call loaded the exact requested file: it read it and returned its data.
LoadedExact == last.opened = <<ExactName(call)>> /\ last.returned # None

\* C7, as stated: a loader call emits a warning if and only if it did not
\* load the exact requested file.
C7_WarningIffNotExact ==
    last.op \in LoaderOps => (HasLevel(last.msgs, "warning") <=> ~LoadedExact)

\* The name a fallback warning carries for the file `name`.
NamedAs(c, name) ==
    IF c.op = "load_temporal_data" THEN BeforeFirst(AfterLast(name, "_"), ".") ELSE name

\* C7, amended: a loader call emits a warning if and only if the exact file
\* is absent and either no file of the prefix exists or the substitute file
\* was read; a file that cannot be read gives an error message and null
\* instead.  Every call that returns data of a substitute file emits the
\* warning naming the substitute, every call that finds no file of the
\* prefix emits a warning and returns null, and a call that opens the exact
\* file emits no warning.
C7_WarningIffFallbackRead ==
    last.op \in LoaderOps =>
        LET exact == ExactName(call)
            substitute == last.opened # <<>> /\ last.opened[1] # exact
            read == last.opened # <<>> /\ ParsesAs(files[last.opened[1]], FormatOf(call))
        IN  /\ HasLevel(last.msgs, "warning") <=>
                  /\ exact \notin DOMAIN files
                  /\ PrefixFiles(call, files) = {} \/ read
            /\ (last.opened # <<>> /\ ~read) =>
                  /\ last.returned = None
                  /\ HasLevel(last.msgs, "error")
            /\ (substitute /\ last.returned # None) =>
                  \E i \in 1 .. Len(last.msgs) :
                      /\ last.msgs[i].level = "warning"
                      /\ last.msgs[i].arg = NamedAs(call, last.opened[1])
            /\ PrefixFiles(call, files) = {} =>
                  /\ HasLevel(last.msgs, "warning")
                  /\ last.returned = None
                  /\ last.opened = <<>>
            /\ last.opened = <<exact>> => ~HasLevel(last.msgs, "warning")

\* A fallback that meets an unreadable substitute: an error, no warning.
C7_Witness ==
    /\ last.op = "load_lst_data"
    /\ ExactName(call) \notin DOMAIN files
    /\ last.opened # <<>>
    /\ ~ParsesAs(files[last.opened[1]], "json")
    /\ last.returned = None
    /\ HasLevel(last.msgs, "error") /\ ~HasLevel(last.msgs, "warning")


(***************************************************************************)
(* analysis.py: one run of the page script per user interaction.  The      *)
(* script keeps nothing between runs: a run is a function of the widgets   *)
(* `w`, of what the remote service does during the run (`env`) and of the  *)
(* data directory.                                                         *)
(***************************************************************************)

\* pd.DataFrame(list of records)
DataFrame(records) ==
    [columns |-> IF records = <<>> THEN {} ELSE DOMAIN records[1],
     rows |-> records, tod_is_text |-> TRUE]

\* st.info / st.success
Info(text) == [level |-> "info", text |-> text, arg |-> ""]
Success(text) == [level |-> "success", text |-> text, arg |-> ""]

\* initialize_earth_engine: ee.Initialize succeeds or raises; every
\* exception is caught and logged, and the outcome is returned.
initialize_earth_engine(accepted) == accepted

\* init_ee
init_ee(accepted) == initialize_earth_engine(accepted)

\* The sidebar's Earth Engine block.  `env.init_ok` is the outcome of
\* ee.Initialize in init_ee, `env.retry_ok` its outcome when the
\* authenticate button was pressed.
Sidebar(w, env) ==
    LET ee_initialized == init_ee(env.init_ok)
    IN  IF ee_initialized
        THEN [ee_initialized |-> TRUE, rerun |-> FALSE,
              trace |-> <<"initialize_earth_engine">>,
              msgs |-> <<Success("Earth Engine initialized successfully")>>]
        ELSE IF w.button
        THEN IF initialize_earth_engine(env.retry_ok)
             THEN [ee_initialized |-> FALSE, rerun |-> TRUE,
                   trace |-> <<"initialize_earth_engine", "initialize_earth_engine">>,
                   msgs |-> <<Success("Earth Engine initialized successfully!")>>]
             ELSE [ee_initialized |-> FALSE, rerun |-> FALSE,
                   trace |-> <<"initialize_earth_engine", "initialize_earth_engine">>,
                   msgs |-> <<Info("Authentication needed. Please try again.")>>]
        ELSE [ee_initialized |-> FALSE, rerun |-> FALSE,
              trace |-> <<"initialize_earth_engine">>, msgs |-> <<>>]

\* The outcome of a run.  `status` is "completed", "rerun" (st.rerun),
\* "stopped" (st.stop) or "uncaught" (an exception left the script).
PageResult(page, side, status, raised, msgs, trace, source, data, shown) ==
    [op |-> "page", page |-> page, status |-> status, raised |-> raised,
     ee_initialized |-> side.ee_initialized,
     msgs |-> side.msgs \o msgs, trace |-> side.trace \o trace,
     source |-> source, data |-> data, shown |-> shown]

\* Temporal Trends, the end of the try block: the table of the records, or
\* the except branch's message and None.
TemporalAnswer(answer) ==
    IF answer.raised # ""
    THEN [msgs |-> <<Error("Error processing Earth Engine data")>>,
          trace |-> <<"get_landsat_collection", "analyze_temporal_changes">>,
          raised |-> answer.raised, source |-> "earth_engine", data |-> None]
    ELSE [msgs |-> <<>>,
          trace |-> <<"get_landsat_collection", "analyze_temporal_changes">>,
          raised |-> "", source |-> "earth_engine",
          data |-> Some(DataFrame(answer.results))]

\* Temporal Trends, the Earth Engine branch: the (collection, year, month)
\* entries year-major, then analyze_temporal_changes with its default
\* time_of_day.  An unreachable service makes the first getInfo() raise.
TemporalFromEarthEngine(w, env) ==
    LET ny == Len(w.years)
        nm == Len(w.months)
        regions_data == <<[district |-> w.district,
                           region |-> get_district_boundary(w.district)]>>
        collections_data ==
            [k \in 1 .. ny * nm |->
                LET year == w.years[((k - 1) \div nm) + 1]
                    month == w.months[((k - 1) % nm) + 1]
                IN  [collection |-> get_landsat_collection(year, month, w.time_of_day,
                                                           env.archive),
                     year |-> year, month |-> month]]
    IN  TemporalAnswer(IF ~env.service_up /\ ny * nm > 0
                       THEN [raised |-> "EEException", results |-> <<>>]
                       ELSE analyze_temporal_changes(collections_data, regions_data,
                                                     w.variable, "Daytime", env.replies))

\* The elements of a list.
Range(seq) == { seq[i] : i \in 1 .. Len(seq) }

\* What a cache branch keeps of a loader's result.
Loaded(loader, r) ==
    [msgs |-> r.msgs, trace |-> <<loader>>, raised |-> "", source |-> "cache",
     data |-> r.returned]

\* Temporal Trends, the cache branch.
TemporalFromCache(w, dir, listing) ==
    Loaded("load_temporal_data",
           load_temporal_data(dir, listing, w.district, Range(w.years), Range(w.months),
                              w.time_of_day, w.variable))

\* create_temporal_chart: the sample chart for None; a table with a year
\* column is grouped and its mean, min and max aggregated; a table
\* without one is drawn from its mean column or from its first column.
create_temporal_chart(temporal_data, variable_type, district) ==
    IF temporal_data = None THEN [raised |-> ""]
    ELSE LET columns == temporal_data.value.columns
         IN  IF "year" \in columns
             THEN IF {"mean", "min", "max"} \subseteq columns THEN [raised |-> ""]
                  ELSE [raised |-> "KeyError"]
             ELSE IF "mean" \in columns \/ columns # {} THEN [raised |-> ""]
             ELSE [raised |-> "IndexError"]

\* The regression block of Temporal Trends: df['year'] and df['mean'] are
\* read by calculate_regression.
PageRegression(df) ==
    IF ~({"year", "mean"} \subseteq df.columns) THEN [raised |-> "KeyError"]
    ELSE calculate_regression([i \in 1 .. Len(df.rows) |->
                                  [year |-> df.rows[i]["year"],
                                   mean |-> df.rows[i]["mean"]]])

\* Temporal Trends after the data was fetched: the chart, then the
\* regression block.
TemporalTrendsDisplay(w, side, fetch) ==
    LET page == "Temporal Trends"
        temporal_data == fetch.data
        chart == create_temporal_chart(temporal_data, w.variable, w.district)
        charted == fetch.trace \o <<"create_temporal_chart">>
    IN  IF chart.raised # ""
        THEN PageResult(page, side, "uncaught", chart.raised, fetch.msgs, charted,
                        fetch.source, temporal_data, "none")
        ELSE IF temporal_data # None /\ temporal_data.value.rows # <<>>
        THEN IF Len(temporal_data.value.rows) >= 3
             THEN PageResult(page, side,
                             IF PageRegression(temporal_data.value).raised # ""
                             THEN "uncaught" ELSE "completed",
                             PageRegression(temporal_data.value).raised, fetch.msgs,
                             charted \o <<"calculate_regression">>,
                             fetch.source, temporal_data,
                             IF PageRegression(temporal_data.value).raised # ""
                             THEN "none" ELSE "regression")
             ELSE PageResult(page, side, "completed", "",
                             fetch.msgs \o <<Info("Not enough data points for regression analysis. Please select more time periods.")>>,
                             charted, fetch.source, temporal_data, "not_enough")
        ELSE PageResult(page, side, "completed", "",
                        fetch.msgs \o <<Info("This is a sample visualization. To see actual regression analysis, please select more time periods and authenticate with Earth Engine.")>>,
                        charted \o <<"create_regression_chart">>,
                        fetch.source, temporal_data, "sample")

\* Temporal Trends after the sidebar.
TemporalTrendsBody(w, env, dir, listing, side) ==
    IF side.rerun
    THEN PageResult("Temporal Trends", side, "rerun", "", <<>>, <<>>, "none", None, "none")
    ELSE TemporalTrendsDisplay(w, side,
                               IF side.ee_initialized THEN TemporalFromEarthEngine(w, env)
                               ELSE TemporalFromCache(w, dir, listing))

\* The script for analysis_type = "Temporal Trends".
TemporalTrendsPage(w, env, dir, listing) ==
    TemporalTrendsBody(w, env, dir, listing, Sidebar(w, env))

\* Python's truth test of what a JSON loader returned: None, an empty
\* object and an empty array are false.
Truthy(data) == data # None /\ data.value.size > 0

\* Spatial Patterns, the Earth Engine branch.  process_landsat_data asks
\* the service for the collection's size first; calculate_statistics and
\* extract_point_values evaluate the layer.  All of it is inside one try
\* block: whichever call raises, the page reports the error and goes on
\* with no layer, no statistics and no sample.
SpatialAnswer(env, processed, stats, sample) ==
    LET trace == <<"get_landsat_collection", "process_landsat_data">>
    IN  IF stats.raised # ""
        THEN [msgs |-> <<Error("Error processing Earth Engine data")>>,
              trace |-> IF env.service_up THEN trace \o <<"calculate_statistics">>
                        ELSE trace,
              raised |-> stats.raised, source |-> "earth_engine",
              data |-> None, stats |-> None, data_layer |-> None]
        ELSE IF sample.raised # ""
        THEN [msgs |-> <<Error("Error processing Earth Engine data")>>,
              trace |-> trace \o <<"calculate_statistics", "generate_sample_points",
                                   "extract_point_values">>,
              raised |-> sample.raised, source |-> "earth_engine",
              data |-> None, stats |-> None, data_layer |-> None]
        ELSE [msgs |-> <<>>,
              trace |-> trace \o <<"calculate_statistics", "generate_sample_points",
                                   "extract_point_values">>,
              raised |-> "", source |-> "earth_engine", data |-> None,
              stats |-> Some([kind |-> "object", size |-> 7, mean |-> stats.mean,
                              min |-> stats.min, max |-> stats.max]),
              data_layer |-> Some(processed.layer)]

SpatialProcessed(env, processed) ==
    SpatialAnswer(env, processed,
                  IF ~env.service_up THEN [raised |-> "EEException"]
                  ELSE calculate_statistics(processed.layer, processed.region,
                                            env.replies[1]),
                  extract_point_values(processed.layer,
                                       generate_sample_points(processed.region, 500),
                                       env.pixels))

SpatialFromEarthEngine(w, env) ==
    SpatialProcessed(env,
                     process_landsat_data(get_landsat_collection(w.year, w.month,
                                                                 w.time_of_day,
                                                                 env.archive),
                                          w.district, w.variable, "Daytime"))

\* Spatial Patterns, the cache branch: data.get('stats', {}) is a method of
\* a JSON object; an array has none.
SpatialLoaded(w, r) ==
    LET data == r.returned
        trace == <<IF w.variable = "LST" THEN "load_lst_data" ELSE "load_ndvi_data">>
    IN  IF Truthy(data)
        THEN IF data.value.kind # "object"
             THEN [msgs |-> r.msgs, trace |-> trace, raised |-> "AttributeError",
                   source |-> "cache", data |-> data, stats |-> None,
                   data_layer |-> None]
             ELSE [msgs |-> r.msgs, trace |-> trace, raised |-> "",
                   source |-> "cache", data |-> data,
                   stats |-> IF "stats" \in DOMAIN data.value
                             THEN Some(data.value.stats)
                             ELSE Some([kind |-> "object", size |-> 0]),
                   data_layer |-> None]
        ELSE [msgs |-> r.msgs, trace |-> trace, raised |-> "", source |-> "cache",
              data |-> data, stats |-> None, data_layer |-> None]

SpatialFromCache(w, dir, listing) ==
    LET district == IF w.district # "All" THEN w.district ELSE "Tamil Nadu"
    IN  SpatialLoaded(w, IF w.variable = "LST"
                         THEN load_lst_data(dir, listing, w.year, w.month, district,
                                            w.time_of_day)
                         ELSE load_ndvi_data(dir, listing, w.year, w.month, district,
                                             None))

\* The statistics column of Spatial Patterns: `if stats:` and then
\* stats.get('mean', 0) formatted as a number.
SpatialStatistics(stats) ==
    IF ~Truthy(stats) THEN [raised |-> "", shown |-> "sample_statistics"]
    ELSE IF stats.value.kind # "object" THEN [raised |-> "AttributeError", shown |-> "none"]
    ELSE [raised |-> "", shown |-> "statistics"]

\* Spatial Patterns after the data was fetched: the map, then the
\* statistics column.
SpatialPatternsDisplay(side, fetch) ==
    LET page == "Spatial Patterns"
        mapped == fetch.trace \o <<IF fetch.data_layer # None THEN "create_map"
                                   ELSE "create_spatial_heatmap">>
        column == SpatialStatistics(fetch.stats)
    IN  IF side.ee_initialized \/ fetch.raised = ""
        THEN IF column.raised # ""
             THEN PageResult(page, side, "uncaught", column.raised, fetch.msgs,
                             mapped, fetch.source, fetch.stats, "none")
             ELSE PageResult(page, side, "completed", "",
                             fetch.msgs \o
                               (IF column.shown = "sample_statistics"
                                THEN <<Info("These are sample statistics. For actual data, please authenticate with Earth Engine.")>>
                                ELSE <<>>),
                             mapped, fetch.source, fetch.stats, column.shown)
        ELSE PageResult(page, side, "uncaught", fetch.raised, fetch.msgs,
                        fetch.trace, fetch.source, fetch.data, "none")

\* Spatial Patterns after the sidebar.
SpatialPatternsBody(w, env, dir, listing, side) ==
    IF side.rerun
    THEN PageResult("Spatial Patterns", side, "rerun", "", <<>>, <<>>, "none", None, "none")
    ELSE SpatialPatternsDisplay(side,
                                IF side.ee_initialized THEN SpatialFromEarthEngine(w, env)
                                ELSE SpatialFromCache(w, dir, listing))

\* The script for analysis_type = "Spatial Patterns".
SpatialPatternsPage(w, env, dir, listing) ==
    SpatialPatternsBody(w, env, dir, listing, Sidebar(w, env))

\* Regional Comparison, the Earth Engine branch: one statistics query per
\* district, after the size query of process_landsat_data.
RECURSIVE DistrictRows(_, _, _, _, _)
DistrictRows(collection, districts, variable, replies, k) ==
    IF k > Len(districts) THEN [raised |-> "", rows |-> <<>>]
    ELSE LET processed == process_landsat_data(collection, districts[k], variable,
                                               "Daytime")
             stats == calculate_statistics(processed.layer, processed.region, replies[k])
         IN  IF stats.raised # "" THEN [raised |-> stats.raised, rows |-> <<>>]
             ELSE LET rest == DistrictRows(collection, districts, variable, replies, k + 1)
                  IN  [raised |-> rest.raised,
                       rows |-> IF rest.raised # "" THEN <<>>
                                ELSE <<[district |-> districts[k], mean |-> stats.mean,
                                        min |-> stats.min, max |-> stats.max,
                                        stdDev |-> stats.stdDev]>> \o rest.rows]

ComparisonAnswer(answer) ==
    LET trace == <<"get_landsat_collection", "process_landsat_data">>
    IN  IF answer.raised # ""
        THEN [msgs |-> <<Error("Error processing Earth Engine data")>>, trace |-> trace,
              raised |-> answer.raised, source |-> "earth_engine", data |-> None]
        ELSE [msgs |-> <<>>, trace |-> trace \o <<"calculate_statistics">>,
              raised |-> "", source |-> "earth_engine",
              data |-> Some(DataFrame(answer.rows))]

ComparisonFromEarthEngine(w, env) ==
    ComparisonAnswer(IF ~env.service_up THEN [raised |-> "EEException", rows |-> <<>>]
                     ELSE DistrictRows(get_landsat_collection(w.year, w.month,
                                                              w.time_of_day, env.archive),
                                       w.districts, w.variable, env.replies, 1))

\* Regional Comparison, the cache branch.
ComparisonFromCache(w, dir, listing) ==
    Loaded("load_comparison_data",
           load_comparison_data(dir, listing, w.year, w.month, Range(w.districts),
                                w.time_of_day, w.variable))

\* The display of a comparison table: the charts read the columns district,
\* mean, min, max and stdDev, and the data table is given five column names.
ComparisonDisplay(df) ==
    IF ~({"district", "mean", "stdDev"} \subseteq df.columns)
    THEN [raised |-> "ValueError"]
    ELSE IF ~({"min", "max"} \subseteq df.columns) THEN [raised |-> "KeyError"]
    ELSE IF Cardinality(df.columns) # 5 THEN [raised |-> "ValueError"]
    ELSE [raised |-> ""]

\* The sample comparison: a table of the selected districts against three
\* sample values per column.
SampleComparison(districts) ==
    LET sample_districts == IF Len(districts) > 0 THEN districts
                            ELSE <<"Chennai", "Coimbatore", "Madurai">>
    IN  IF Len(sample_districts) # 3 THEN [raised |-> "ValueError"]
        ELSE [raised |-> ""]

\* Regional Comparison after the data was fetched.
RegionalComparisonDisplay(w, side, fetch) ==
    LET page == "Regional Comparison"
        comparison_df == fetch.data
    IN  IF comparison_df # None /\ comparison_df.value.rows # <<>>
        THEN LET display == ComparisonDisplay(comparison_df.value)
             IN  IF display.raised # ""
                 THEN PageResult(page, side, "uncaught", display.raised, fetch.msgs,
                                 fetch.trace, fetch.source, comparison_df, "none")
                 ELSE PageResult(page, side, "completed", "", fetch.msgs,
                                 fetch.trace, fetch.source, comparison_df,
                                 "comparison")
        ELSE LET sample == SampleComparison(w.districts)
                 msgs == fetch.msgs \o
                           <<Info("No comparison data available. Showing sample visualization.")>>
             IN  IF sample.raised # ""
                 THEN PageResult(page, side, "uncaught", sample.raised, msgs,
                                 fetch.trace, fetch.source, comparison_df, "none")
                 ELSE PageResult(page, side, "completed", "", msgs, fetch.trace,
                                 fetch.source, comparison_df, "sample")

\* Regional Comparison after the sidebar.
RegionalComparisonBody(w, env, dir, listing, side) ==
    LET page == "Regional Comparison"
    IN  IF side.rerun
        THEN PageResult(page, side, "rerun", "", <<>>, <<>>, "none", None, "none")
        ELSE IF Len(w.districts) < 1
        THEN PageResult(page, side, "stopped", "",
                        <<Warning("Please select at least one district for comparison.", "")>>,
                        <<>>, "none", None, "none")
        ELSE RegionalComparisonDisplay(w, side,
                                       IF side.ee_initialized
                                       THEN ComparisonFromEarthEngine(w, env)
                                       ELSE ComparisonFromCache(w, dir, listing))

\* The script for analysis_type = "Regional Comparison".
RegionalComparisonPage(w, env, dir, listing) ==
    RegionalComparisonBody(w, env, dir, listing, Sidebar(w, env))


(***************************************************************************)
(* A session on the analysis page (SpecPage): every user interaction runs  *)
(* the script once, with the widgets' values and whatever the service and  *)
(* the data directory answer during the run.                               *)
(***************************************************************************)

\* The remote archive of a session: cloud-free images of the middle of each
\* month, one taken with the sun high and one with the sun low.
PageImages ==
    { [source |-> SourceFor(y), date |-> FromYMD(y, m, 15), CLOUD_COVER |-> 10,
       SUN_ELEVATION |-> e, bands |-> BandsOf(SourceFor(y))] :
        y \in {2021, 2022}, m \in {1, 4, 12}, e \in {30, 50} }

CompleteReplies == [k \in 1 .. 2 * MaxPeriods |-> FullReply(k)]

\* What the service does during a run: ee.Initialize succeeds or not (and
\* again when the button is pressed); once initialized, queries fail or are
\* answered from the archive.
Environments ==
    { [init_ok |-> TRUE, retry_ok |-> FALSE, service_up |-> u, archive |-> a,
       replies |-> CompleteReplies, pixels |-> px] :
        u \in BOOLEAN, a \in {{}, PageImages},
        px \in {<<>>, <<CHOOSE p \in Pixels : ~p.masked>>} }
    \cup
    { [init_ok |-> FALSE, retry_ok |-> b, service_up |-> FALSE, archive |-> {},
       replies |-> CompleteReplies, pixels |-> <<>>] : b \in BOOLEAN }

\* The widgets of the sidebar.
TemporalWidgets ==
    { [analysis_type |-> "Temporal Trends", variable |-> k[1], time_of_day |-> k[2],
       button |-> b, years |-> p[1], months |-> p[2], district |-> "Chennai"] :
        k \in RequestKinds, b \in BOOLEAN,
        p \in {<<<<>>, <<1, 4>>>>, <<<<2022>>, <<1, 4>>>>, <<<<2021, 2022>>, <<1, 4>>>>,
               <<<<2022>>, <<1, 4, 12>>>>} }

SpatialWidgets ==
    { [analysis_type |-> "Spatial Patterns", variable |-> k[1], time_of_day |-> k[2],
       button |-> b, year |-> 2022, month |-> 1, district |-> d] :
        k \in RequestKinds, b \in BOOLEAN, d \in {"All", "Chennai"} }

ComparisonWidgets ==
    { [analysis_type |-> "Regional Comparison", variable |-> k[1],
       time_of_day |-> k[2], button |-> b, year |-> 2022, month |-> 1,
       districts |-> ds] :
        k \in RequestKinds, b \in BOOLEAN,
        ds \in {<<>>, <<"Chennai">>, <<"Chennai", "Erode", "Madurai">>} }

\* An interaction: the button can only be pressed while it is shown, and
\* the retry only happens when it is pressed.
Interactions(widgets) ==
    { i \in [w : widgets, env : Environments] :
        /\ i.w.button => ~i.env.init_ok
        /\ i.env.retry_ok => i.w.button
        /\ (~i.env.service_up /\ i.env.init_ok) => i.env.archive = {} }

\* The files of a session's data directory.
TrendTable ==
    [format |-> "csv",
     columns |-> {"year", "month", "district", "time_of_day", "mean", "min", "max"},
     tod_is_text |-> TRUE,
     rows |-> [i \in 1 .. 4 |->
                 [year |-> 2020 + ((i + 1) \div 2), month |-> 4, district |-> "Chennai",
                  time_of_day |-> "Daytime", mean |-> 3000 + 10 * i,
                  min |-> 2500, max |-> 3500]]]

MeansOnlyTable ==
    [format |-> "csv", columns |-> {"mean"}, tod_is_text |-> TRUE,
     rows |-> [i \in 1 .. 3 |-> [mean |-> 3000 + i]]]

DistrictTable ==
    [format |-> "csv", columns |-> {"district", "mean", "min", "max", "stdDev"},
     tod_is_text |-> TRUE,
     rows |-> <<[district |-> "Chennai", mean |-> 3000, min |-> 2500, max |-> 3500,
                 stdDev |-> 200],
                [district |-> "Erode", mean |-> 3100, min |-> 2600, max |-> 3600,
                 stdDev |-> 210]>>]

DistrictTimeTable ==
    [format |-> "csv",
     columns |-> {"district", "time_of_day", "mean", "min", "max", "stdDev"},
     tod_is_text |-> TRUE,
     rows |-> <<[district |-> "Chennai", time_of_day |-> "Daytime", mean |-> 3000,
                 min |-> 2500, max |-> 3500, stdDev |-> 200]>>]

StatsDocument ==
    [format |-> "json",
     data |-> [kind |-> "object", size |-> 1,
               stats |-> [kind |-> "object", size |-> 3, mean |-> 3000,
                          min |-> 2500, max |-> 3500]]]

ArrayDocument == [format |-> "json", data |-> [kind |-> "array", size |-> 2]]

PageDirectories ==
    { <<>>,
      [n \in {"temporal_lst_chennai.csv", "lst_2022_01_chennai_daytime.json",
              "comparison_lst_2022_01.csv"} |->
          CASE n = "temporal_lst_chennai.csv" -> TrendTable
            [] n = "lst_2022_01_chennai_daytime.json" -> StatsDocument
            [] OTHER -> DistrictTable],
      [n \in {"temporal_lst_chennai.csv", "lst_2022_01_chennai_daytime.json",
              "comparison_lst_2022_01.csv"} |->
          CASE n = "temporal_lst_chennai.csv" -> MeansOnlyTable
            [] n = "lst_2022_01_chennai_daytime.json" -> ArrayDocument
            [] OTHER -> DistrictTimeTable],
      [n \in {"temporal_lst_chennai.csv", "lst_2022_01_chennai_daytime.json"} |-> Bad],
      [n \in {"temporal_lst_salem.csv", "temporal_lst_madurai.csv"} |-> TrendTable],
      [n \in {"lst_sample.json", "comparison_lst_sample.csv"} |->
          IF n = "lst_sample.json" THEN StatsDocument ELSE DistrictTable] }

InitPage ==
    /\ data_dir \in BOOLEAN
    /\ files \in (IF data_dir THEN PageDirectories ELSE {<<>>})
    /\ call = [op |-> "none"]
    /\ last = NoResult

\* After st.rerun() the script runs again at once, with the same widgets and
\* the button released.
FollowsRerun(w) ==
    (last.op = "page" /\ last.status = "rerun") => w = [call.w EXCEPT !.button = FALSE]

\* The directory is listed only by the cache loaders.
Listed(env) == IF env.init_ok THEN {<<>>} ELSE Listings(DOMAIN files)

\* One run of the script with analysis_type = "Temporal Trends".  The cache
\* loaders create the data directory.
RunTemporalTrends ==
    \E i \in Interactions(TemporalWidgets) :
        /\ FollowsRerun(i.w)
        /\ \E listing \in Listed(i.env) :
               last' = TemporalTrendsPage(i.w, i.env, files, listing)
        /\ call' = [op |-> "page", w |-> i.w, env |-> i.env]
        /\ data_dir' = IF last'.source = "cache" THEN ensure_data_dir(data_dir)
                       ELSE data_dir
        /\ UNCHANGED files

\* One run of the script with analysis_type = "Spatial Patterns".
RunSpatialPatterns ==
    \E i \in Interactions(SpatialWidgets) :
        /\ FollowsRerun(i.w)
        /\ \E listing \in Listed(i.env) :
               last' = SpatialPatternsPage(i.w, i.env, files, listing)
        /\ call' = [op |-> "page", w |-> i.w, env |-> i.env]
        /\ data_dir' = IF last'.source = "cache" THEN ensure_data_dir(data_dir)
                       ELSE data_dir
        /\ UNCHANGED files

\* One run of the script with analysis_type = "Regional Comparison".
RunRegionalComparison ==
    \E i \in Interactions(ComparisonWidgets) :
        /\ FollowsRerun(i.w)
        /\ \E listing \in Listed(i.env) :
               last' = RegionalComparisonPage(i.w, i.env, files, listing)
        /\ call' = [op |-> "page", w |-> i.w, env |-> i.env]
        /\ data_dir' = IF last'.source = "cache" THEN ensure_data_dir(data_dir)
                       ELSE data_dir
        /\ UNCHANGED files

NextPage ==
    \/ RunTemporalTrends
    \/ RunSpatialPatterns
    \/ RunRegionalComparison

SpecPage == InitPage /\ [][NextPage]_vars


(***************************************************************************)
(* Claims about the analysis page (SpecPage).                              *)
(***************************************************************************)

\* C12: in each of the three analysis types no failure of the remote
\* service, of a file read, of parsing or of the processing of the loaded
\* data (the charts, the regression) leaves the script as an uncaught
\* exception: every run completes, stops or reruns.
C12_NoUncaughtException ==
    last.op = "page" => (last.status # "uncaught" /\ last.raised = "")

\* The run found the remote service unavailable: initialization did not
\* succeed, or a query raised after it had.
ServiceUnavailable(r) ==
    \/ ~r.ee_initialized
    \/ \E i \in 1 .. Len(r.msgs) :
           r.msgs[i] = Error("Error processing Earth Engine data")

\* C13: in every analysis type, a run that gets as far as its data and
\* finds the remote service unavailable obtains the page's data from the
\* local cache loaders.
C13_CacheWhenUnavailable ==
    (/\ last.op = "page"
     /\ last.status \notin {"rerun", "stopped"}
     /\ ServiceUnavailable(last))
    => /\ last.source = "cache"
       /\ Range(last.trace) \cap LoaderOps # {}

\* initialize_earth_engine returned True during the run.
InitSucceeded(r) == r.ee_initialized \/ r.status = "rerun"

\* C14: within a session, once initialize_earth_engine has succeeded in a
\* run, no later run executes it again.
C14_InitializedOncePerSession ==
    [][(last.op = "page" /\ InitSucceeded(last))
       => "initialize_earth_engine" \notin Range(last'.trace)]_vars

\* A run of Temporal Trends that got past the sidebar.
TemporalRun ==
    /\ last.op = "page" /\ last.page = "Temporal Trends"
    /\ last.status \in {"completed", "uncaught"}

\* The records of the table the run worked on.
TemporalRecords == IF last.data = None THEN <<>> ELSE last.data.value.rows

\* C23: every record computed in a Temporal Trends run carries as
\* time_of_day the Daytime/Nighttime choice its collection was selected
\* with.
C23_RecordsCarryChoice ==
    (TemporalRun /\ last.source = "earth_engine" /\ call.w.variable = "LST") =>
        \A k \in 1 .. Len(TemporalRecords) :
            TemporalRecords[k].time_of_day = call.w.time_of_day

\* C24: Temporal Trends calls calculate_regression only on a table of at
\* least three records; with one or two it shows the not-enough-data
\* message and with none (or no table) the sample chart.
C24_RegressionNeedsThreeRecords ==
    TemporalRun =>
        /\ "calculate_regression" \in Range(last.trace) => Len(TemporalRecords) >= 3
        /\ Len(TemporalRecords) \in {1, 2} => last.shown = "not_enough"
        /\ Len(TemporalRecords) = 0 =>
               /\ last.shown = "sample"
               /\ "calculate_regression" \notin Range(last.trace)

\* C25: whenever Temporal Trends calls calculate_regression, the table has
\* at least two distinct years.
C25_RegressionHasTwoYears ==
    (TemporalRun /\ "calculate_regression" \in Range(last.trace)
                 /\ "year" \in last.data.value.columns) =>
        Cardinality({ TemporalRecords[k].year : k \in 1 .. Len(TemporalRecords) }) >= 2

\* C26: with no comparison data (no table or an empty one) Regional
\* Comparison shows the sample visualization without error, for every
\* selection of at least one district.
C26_SampleForEverySelection ==
    (/\ last.op = "page" /\ last.page = "Regional Comparison"
     /\ Len(call.w.districts) >= 1
     /\ last.status \in {"completed", "uncaught"}
     /\ (last.data = None \/ last.data.value.rows = <<>>)) =>
        /\ last.status = "completed"
        /\ last.shown = "sample"


(***************************************************************************)
(* Claims about the names the JSON loaders address (SpecLoader).           *)
(***************************************************************************)

JsonOps == {"load_lst_data", "load_ndvi_data"}

\* The requests a call is compared with.
JsonRequests ==
    { [op |-> o, year |-> y, month |-> m, district |-> d, time_of_day |-> t] :
        o \in JsonOps, y \in {2023, 2024}, m \in {4, 10},
        d \in {"Erode", "erode", "Salem"}, t \in TimesOfDay }

\* C15, as stated: for LST and NDVI alike, two requests that differ in
\* year, month, district or time of day address different files (districts
\* spelled as the sidebar spells them).
C15_DistinctRequestsDistinctFiles ==
    last.op \in JsonOps =>
        \A r \in JsonRequests :
            (/\ r.op = call.op
             /\ r.district \in {"Erode", "Salem"}
             /\ <<r.year, r.month, r.district, r.time_of_day>>
                    # <<call.year, call.month, call.district, call.time_of_day>>)
            => ExactName(r) # ExactName(call)

\* The components of a request that its file name carries: year, month and
\* the district in lower case; for LST also the time of day in lower case.
NameKey(c) ==
    IF c.op = "load_lst_data"
    THEN <<c.year, c.month, Lower(c.district), Lower(c.time_of_day)>>
    ELSE <<c.year, c.month, Lower(c.district)>>

\* C15, amended: the LST loader addresses lst_{year}_{mm}_{district}_{time}.json
\* and the NDVI loader ndvi_{year}_{mm}_{district}.json, district and time in
\* lower case; when that file exists it is the one file opened.  Two
\* requests of a loader address the same file exactly when they agree on
\* year, month and the lower-cased district and, for LST, on the time of
\* day: NDVI requests that differ only in time of day share one file.
C15_NameCarriesKey ==
    last.op \in JsonOps =>
        /\ ExactName(call) \in DOMAIN files => last.opened = <<ExactName(call)>>
        /\ \A r \in JsonRequests :
               r.op = call.op =>
                   (ExactName(r) = ExactName(call) <=> NameKey(r) = NameKey(call))

C15_Witness ==
    /\ last.op = "load_ndvi_data"
    /\ LoadedExact
    /\ last.opened = <<"ndvi_2024_04_erode.json">>
    /\ \E r \in JsonRequests :
           /\ r.op = "load_ndvi_data"
           /\ r.time_of_day # call.time_of_day
           /\ ExactName(r) = ExactName(call)

\* C20: when the exact cache file exists and cannot be parsed, each of the
\* four loaders returns null with an error message for the user, raises
\* nothing, and opens no other file of the prefix.
C20_UnparseableExactFile ==
    (/\ last.op \in LoaderOps
     /\ ExactName(call) \in DOMAIN files
     /\ ~ParsesAs(files[ExactName(call)], FormatOf(call)))
    => /\ last.returned = None
       /\ HasLevel(last.msgs, "error")
       /\ ~HasLevel(last.msgs, "warning")
       /\ last.opened = <<ExactName(call)>>

\* The exact temporal file is unreadable while another file of the prefix
\* could have been read.
C20_Witness ==
    /\ last.op = "load_temporal_data"
    /\ call.district = "Salem" /\ call.variable_type = "LST"
    /\ DOMAIN files = {"temporal_lst_salem.csv", "temporal_lst_madurai.csv"}
    /\ ~ParsesAs(files["temporal_lst_salem.csv"], "csv")
    /\ ParsesAs(files["temporal_lst_madurai.csv"], "csv")
    /\ last.opened = <<"temporal_lst_salem.csv">>
    /\ last.returned = None
    /\ HasLevel(last.msgs, "error")


(***************************************************************************)
(* Claims about the tables the CSV loaders return (SpecLoader).            *)
(***************************************************************************)

CsvOps == {"load_temporal_data", "load_comparison_data"}

\* The row is one the call asks for, as far as the table's columns say.
Requested(row, columns) ==
    /\ (call.op = "load_temporal_data" /\ "year" \in columns) => row.year \in call.years
    /\ (call.op = "load_temporal_data" /\ "month" \in columns) =>
           row.month \in call.months
    /\ (call.op = "load_comparison_data" /\ "district" \in columns) =>
           row.district \in call.districts
    /\ (call.variable_type = "LST" /\ "time_of_day" \in columns) =>
           Lower(row.time_of_day) = Lower(call.time_of_day)

\* C27: the table a CSV loader returns holds exactly the rows of the file
\* it read that the call asks for (year, month or district among the
\* requested ones and, for LST, the requested time of day whatever the
\* case), each condition counting only when its column exists, on the
\* exact and on the fallback path alike; no such row is dropped.
C27_ExactlyRequestedRows ==
    (last.op \in CsvOps /\ last.returned # None) =>
        LET source == files[last.opened[1]]
        IN  /\ last.returned.value.columns = source.columns
            /\ last.returned.value.rows =
                   SelectSeq(source.rows, LAMBDA row : Requested(row, source.columns))

\* A fallback file was filtered: a row was kept and a row was dropped.
C27_Witness ==
    /\ last.op = "load_temporal_data" /\ last.returned # None
    /\ last.msgs # <<>>
    /\ call.variable_type = "LST"
    /\ last.returned.value.rows # <<>>
    /\ Len(last.returned.value.rows) < Len(files[last.opened[1]].rows)


(***************************************************************************)
(* Claims about the data directory (SpecStore).                            *)
(***************************************************************************)

\* C29: after save_uploaded_file(file, type) succeeds the saved file's
\* name starts with type + '_' (a name that already does is kept as it
\* is), and get_available_data_files lists the file under the category of
\* that type.
C29_SavedFileListedUnderType ==
    /\ (last.op = "save_uploaded_file" /\ last.returned # None) =>
           LET file_name == last.returned.value
               prefix == call.file_type \o "_"
           IN  /\ StartsWith(file_name, prefix)
               /\ StartsWith(call.uploaded_file.name, prefix) =>
                      file_name = call.uploaded_file.name
               /\ file_name \in DOMAIN files
               /\ files[file_name] = call.uploaded_file.content
    /\ (/\ last.op = "get_available_data_files"
        /\ last.previous.op = "save_uploaded_file"
        /\ last.previous.returned # None) =>
           last.previous.returned.value \in Range(last.returned[call.file_type])

AllLoaders == LoaderOps \cup {"load_district_boundaries", "get_available_data_files"}

\* C30: a loader operation (the five loaders and the listing) leaves the
\* files of the data directory and their contents as they were; its only
\* effect is that the data directory exists afterwards.
C30_LoadersLeaveFilesAlone ==
    [][last'.op \in AllLoaders => (files' = files /\ data_dir')]_vars

\* A loader read a file of a directory that holds another file too.
C30_Witness ==
    /\ last.op = "load_district_boundaries"
    /\ last.returned # None
    /\ last.opened = <<"district_boundaries.json">>
    /\ Cardinality(DOMAIN files) >= 2

====
